---- MODULE Spec2Model ----
(***************************************************************************)
(* The command interpreter and reading session of the web assistant        *)
(* (src/app3.py): the process-wide session (current_file_content,          *)
(* read_position, translation_language), the /command dispatcher and its   *)
(* handlers, and the /read_chunk endpoint.  Requests are handled one at a  *)
(* time, so a request is one step.  Text is modelled by TLA+ strings and   *)
(* the parsing helpers are computed as Python computes them.               *)
(***************************************************************************)
EXTENDS Integers, Sequences, FiniteSets, TLC

(***************************************************************************)
(* Bounds                                                                  *)
(***************************************************************************)
\* longest document / transcript, in characters
MaxLen == 3
\* largest chunk size of get_next_chunk (the handler passes 500)
MaxChunk == 2
\* how many 'done' answers in a row the history counts
MaxRepeat == 2
\* longest document read to the end for its progress figures
MaxDocument == 50

(***************************************************************************)
(* Python string operations                                                *)
(***************************************************************************)
Min(a, b) == IF a <= b THEN a ELSE b
Max(a, b) == IF a >= b THEN a ELSE b

CharAt(s, i) == SubSeq(s, i, i)

\* sub in s
In(sub, s) ==
    \E i \in 1..(Len(s) - Len(sub) + 1) : SubSeq(s, i, i + Len(sub) - 1) = sub

\* s.find(sub) + 1 : position of the first occurrence, 0 when there is none
Find(s, sub) ==
    IF In(sub, s)
    THEN CHOOSE i \in 1..(Len(s) - Len(sub) + 1) :
            /\ SubSeq(s, i, i + Len(sub) - 1) = sub
            /\ \A j \in 1..(i - 1) : SubSeq(s, j, j + Len(sub) - 1) # sub
    ELSE 0

\* s.rfind(sub) + 1
RFind(s, sub) ==
    IF In(sub, s)
    THEN CHOOSE i \in 1..(Len(s) - Len(sub) + 1) :
            /\ SubSeq(s, i, i + Len(sub) - 1) = sub
            /\ \A j \in (i + 1)..(Len(s) - Len(sub) + 1) :
                  SubSeq(s, j, j + Len(sub) - 1) # sub
    ELSE 0

StartsWith(s, p) == Len(p) <= Len(s) /\ SubSeq(s, 1, Len(p)) = p

EndsWith(s, p) == Len(p) <= Len(s) /\ SubSeq(s, Len(s) - Len(p) + 1, Len(s)) = p

\* s.split(sep)[0]
SplitFirst(s, sep) ==
    IF In(sep, s) THEN SubSeq(s, 1, Find(s, sep) - 1) ELSE s

\* s.split(sep, 1)[1], for a string that contains sep
SplitAfter(s, sep) == SubSeq(s, Find(s, sep) + Len(sep), Len(s))

\* s.split(sep)[-1], for a separator that cannot overlap itself
SplitLast(s, sep) ==
    IF In(sep, s) THEN SubSeq(s, RFind(s, sep) + Len(sep), Len(s)) ELSE s

RECURSIVE LStrip(_)
LStrip(s) == IF Len(s) > 0 /\ CharAt(s, 1) = " " THEN LStrip(Tail(s)) ELSE s

RECURSIVE RStrip(_)
RStrip(s) ==
    IF Len(s) > 0 /\ CharAt(s, Len(s)) = " "
    THEN RStrip(SubSeq(s, 1, Len(s) - 1)) ELSE s

\* s.strip()
Strip(s) == RStrip(LStrip(s))

\* s.rstrip('.')
RECURSIVE RStripDot(_)
RStripDot(s) ==
    IF Len(s) > 0 /\ CharAt(s, Len(s)) = "."
    THEN RStripDot(SubSeq(s, 1, Len(s) - 1)) ELSE s

\* s.replace(old, new), old not empty
RECURSIVE Replace(_, _, _)
Replace(s, old, new) ==
    IF In(old, s)
    THEN SubSeq(s, 1, Find(s, old) - 1) \o new
            \o Replace(SubSeq(s, Find(s, old) + Len(old), Len(s)), old, new)
    ELSE s

\* s.split() : the whitespace-separated words of s
RECURSIVE Words(_)
Words(s) ==
    LET t == LStrip(s) IN
    IF t = "" THEN << >>
    ELSE IF In(" ", t)
         THEN <<SplitFirst(t, " ")>> \o Words(SplitAfter(t, " "))
         ELSE <<t>>

\* " ".join(ws)
RECURSIVE Join(_)
Join(ws) ==
    IF Len(ws) = 0 THEN ""
    ELSE IF Len(ws) = 1 THEN ws[1]
    ELSE ws[1] \o " " \o Join(Tail(ws))

UpperCase == "ABCDEFGHIJKLMNOPQRSTUVWXYZ"
LowerCase == "abcdefghijklmnopqrstuvwxyz"

LowerChar(c) ==
    IF In(c, UpperCase) THEN CharAt(LowerCase, Find(UpperCase, c)) ELSE c

\* s.lower(), character by character (the string is halved to keep the
\* recursion shallow)
RECURSIVE Lower(_)
Lower(s) ==
    IF Len(s) = 0 THEN ""
    ELSE IF Len(s) = 1 THEN LowerChar(s)
    ELSE Lower(SubSeq(s, 1, Len(s) \div 2))
            \o Lower(SubSeq(s, Len(s) \div 2 + 1, Len(s)))

UpperChar(c) ==
    IF In(c, LowerCase) THEN CharAt(UpperCase, Find(LowerCase, c)) ELSE c

(***************************************************************************)
(* Values shared by the helpers                                            *)
(***************************************************************************)
\* Python's None; it is falsy, like the empty string
None == "<None>"
Truthy(x) == x # None /\ x # ""

SUPPORTED_EXTENSIONS ==
    <<".txt", ".pdf", ".docx", ".pptx", ".mp4", ".mov", ".avi", ".mkv", ".wmv">>

\* googletrans.LANGUAGES, in the library's order, cut down to the languages
\* the commands below name (among them a name of two words, a name that
\* contains "to", and the two codes the library gives to Hebrew)
LANGUAGES ==
    << <<"zh-cn", "chinese (simplified)">>,
       <<"en", "english">>,
       <<"et", "estonian">>,
       <<"fr", "french">>,
       <<"iw", "hebrew">>,
       <<"he", "hebrew">>,
       <<"hi", "hindi">>,
       <<"es", "spanish">> >>

LanguageCodes == {LANGUAGES[i][1] : i \in 1..Len(LANGUAGES)}

\* LANGUAGES.get(code, default)
LanguageName(code, default) ==
    IF code \in LanguageCodes
    THEN LANGUAGES[CHOOSE i \in 1..Len(LANGUAGES) : LANGUAGES[i][1] = code][2]
    ELSE default

\* the last code of the name returned, as a dictionary of names would
get_language_code_last_match(language_name) ==
    LET hits == {i \in 1..Len(LANGUAGES) :
                    Lower(LANGUAGES[i][2]) = Lower(language_name)} IN
    IF hits = {} THEN None
    ELSE LANGUAGES[CHOOSE i \in hits : \A j \in hits : i >= j][1]

get_language_code(language_name) ==
    LET hits == {i \in 1..Len(LANGUAGES) :
                    Lower(LANGUAGES[i][2]) = Lower(language_name)} IN
    IF hits = {} THEN None
    ELSE LANGUAGES[CHOOSE i \in hits : \A j \in hits : i <= j][1]

(***************************************************************************)
(* Command parser                                                          *)
(***************************************************************************)
\* the words of parts up to the first word "from"
RECURSIVE UntilFrom(_)
UntilFrom(parts) ==
    IF Len(parts) = 0 \/ parts[1] = "from" THEN << >>
    ELSE <<parts[1]>> \o UntilFrom(Tail(parts))

\* the first of the 1-, 2- and 3-word prefixes of parts that names a language
RECURSIVE ProbeSource(_, _)
ProbeSource(parts, i) ==
    IF i > Min(3, Len(parts)) THEN None
    ELSE LET code == get_language_code(Join(SubSeq(parts, 1, i))) IN
         IF Truthy(code) THEN code ELSE ProbeSource(parts, i + 1)

\* the command up to the first supported extension that occurs in it
RECURSIVE CleanCommand(_, _)
CleanCommand(command, k) ==
    IF k > Len(SUPPORTED_EXTENSIONS) THEN command
    ELSE IF In(SUPPORTED_EXTENSIONS[k], command)
         THEN Strip(SplitFirst(command, SUPPORTED_EXTENSIONS[k]))
         ELSE CleanCommand(command, k + 1)

\* the code of the language the command names after "translate to", None
\* when it names none or one the registry does not know
explicit_target(raw) ==
    LET clean_command == CleanCommand(Lower(raw), 1) IN
    IF In("translate to", clean_command)
    THEN get_language_code(Join(UntilFrom(
            Words(SplitAfter(clean_command, "translate to")))))
    ELSE None

\* the default of the voice assistant: 'en' when no target was found
extract_language_codes_default_en(raw, target_now) ==
    LET command == Lower(raw)
        clean_command == CleanCommand(command, 1)
        target1 == explicit_target(raw)
        source1 ==
            IF In("from", clean_command)
            THEN ProbeSource(Words(SplitAfter(clean_command, "from")), 1)
            ELSE None
        source2 ==
            IF (source1 = "hi" \/ (In("transcribe", command) /\ source1 = None))
               /\ (In("hindi", command) \/ In("hinglish", command))
            THEN "hi-IN" ELSE source1
    IN <<IF target1 = None THEN "en" ELSE target1,
         IF source2 = None THEN "en" ELSE source2>>

\* the regional code given to the target whenever the source takes it
extract_language_codes_regional_target(raw, target_now) ==
    LET command == Lower(raw)
        clean_command == CleanCommand(command, 1)
        target1 == explicit_target(raw)
        source1 ==
            IF In("from", clean_command)
            THEN ProbeSource(Words(SplitAfter(clean_command, "from")), 1)
            ELSE None
        target2 ==
            IF target1 = None /\ (In("transcribe", command) \/ In("translate", command))
            THEN target_now ELSE target1
        source2 ==
            IF (source1 = "hi" \/ (In("transcribe", command) /\ source1 = None))
               /\ (In("hindi", command) \/ In("hinglish", command))
            THEN "hi-IN" ELSE source1
        source3 ==
            IF source2 = None /\ In("transcribe", command) THEN "en" ELSE source2
    IN <<IF source2 = "hi-IN" THEN "hi-IN" ELSE target2, source3>>

\* extract_language_codes(command), reading the global translation_language;
\* the result is <<target_code, source_code>>
extract_language_codes(raw, target_now) ==
    LET command == Lower(raw)
        clean_command == CleanCommand(command, 1)
        target1 ==
            IF In("translate to", clean_command)
            THEN get_language_code(Join(UntilFrom(
                    Words(SplitAfter(clean_command, "translate to")))))
            ELSE None
        source1 ==
            IF In("from", clean_command)
            THEN ProbeSource(Words(SplitAfter(clean_command, "from")), 1)
            ELSE None
        target2 ==
            IF target1 = None /\ (In("transcribe", command) \/ In("translate", command))
            THEN target_now ELSE target1
        source2 ==
            IF (source1 = "hi" \/ (In("transcribe", command) /\ source1 = None))
               /\ (In("hindi", command) \/ In("hinglish", command))
            THEN "hi-IN" ELSE source1
        source3 ==
            IF source2 = None /\ In("transcribe", command) THEN "en" ELSE source2
    IN <<target2, source3>>

file_keywords ==
    <<"open", "read", "play", "transcribe", "file", "document", "video", "docx",
      "pdf", "pptx", "txt", "mp4", "mov", "avi", "mkv", "wmv">>

FilenameSeparators == <<" and ", " to ", " in ", " from ">>

\* the candidate cut at each separator in turn
RECURSIVE CutAtSeparators(_, _)
CutAtSeparators(candidate, k) ==
    IF k > Len(FilenameSeparators) THEN candidate
    ELSE CutAtSeparators(SplitFirst(candidate, FilenameSeparators[k]), k + 1)

RECURSIVE FilenameFromKeyword(_, _)
FilenameFromKeyword(command, k) ==
    IF k > Len(file_keywords) THEN None
    ELSE IF In(file_keywords[k], command)
         THEN LET filename_candidate ==
                      CutAtSeparators(Strip(SplitAfter(command, file_keywords[k])), 1)
              IN IF In(".", filename_candidate) /\ Len(filename_candidate) > 3
                 THEN RStripDot(Strip(filename_candidate))
                 ELSE FilenameFromKeyword(command, k + 1)
         ELSE FilenameFromKeyword(command, k + 1)

\* the command with the spoken punctuation replaced
SpokenPunctuation(raw) ==
    Replace(Replace(Replace(Lower(raw), " dot ", "."), " point ", "."),
            " mp 4", " mp4")

\* what follows the k-th keyword, cut at the separators
FilenameCandidate(command, k) ==
    CutAtSeparators(Strip(SplitAfter(command, file_keywords[k])), 1)

\* the test "looks like a file name"
LooksLikeFilename(candidate) == In(".", candidate) /\ Len(candidate) > 3

\* the keywords of the command, as positions in file_keywords
KeywordsIn(command) ==
    {k \in 1..Len(file_keywords) : In(file_keywords[k], command)}

\* the least of a non-empty set of positions
Least(S) == CHOOSE k \in S : \A j \in S : k <= j

\* only the first keyword of the command is tried
extract_filename_first_keyword_only(raw) ==
    LET command == SpokenPunctuation(raw)
        found == KeywordsIn(command)
    IN IF found = {} THEN None
       ELSE LET candidate == FilenameCandidate(command, Least(found))
            IN IF LooksLikeFilename(candidate)
               THEN RStripDot(Strip(candidate)) ELSE None

extract_filename_from_command(raw) ==
    FilenameFromKeyword(
        Replace(Replace(Replace(Lower(raw), " dot ", "."), " point ", "."),
                " mp 4", " mp4"),
        1)

youtube_triggers ==
    <<"play ", "search for ", "search ", "find ", "show ", "watch ",
      "transcribe ", "translate ">>

RECURSIVE StripTrigger(_, _)
StripTrigger(command, k) ==
    IF k > Len(youtube_triggers) THEN command
    ELSE IF StartsWith(command, youtube_triggers[k])
         THEN Strip(SubSeq(command, Len(youtube_triggers[k]) + 1, Len(command)))
         ELSE StripTrigger(command, k + 1)

StripYoutubeSuffix(command) ==
    IF EndsWith(command, "on youtube")
    THEN Strip(SubSeq(command, 1, Len(command) - 10))
    ELSE IF EndsWith(command, "in youtube")
    THEN Strip(SubSeq(command, 1, Len(command) - 10))
    ELSE IF EndsWith(command, "youtube")
    THEN Strip(SubSeq(command, 1, Len(command) - 7))
    ELSE command

\* the "to <name>" and "from <name>" fragments of every registry language removed
RECURSIVE StripLanguages(_, _)
StripLanguages(command, k) ==
    IF k > Len(LANGUAGES) THEN command
    ELSE LET to_name == "to " \o Lower(LANGUAGES[k][2])
             from_name == "from " \o Lower(LANGUAGES[k][2])
             c1 == IF In(to_name, command)
                   THEN Strip(Replace(command, to_name, "")) ELSE command
             c2 == IF In(from_name, c1)
                   THEN Strip(Replace(c1, from_name, "")) ELSE c1
         IN StripLanguages(c2, k + 1)

extract_youtube_query(raw) ==
    LET c0 == Strip(Lower(raw))
        c1 == StripTrigger(c0, 1)
        c2 == StripYoutubeSuffix(c1)
        c3 == StripLanguages(c2, 1)
        c4 == Strip(Replace(Replace(c3, " and ", " "), " with ", " "))
    IN IF c4 # "" THEN Join(Words(c4)) ELSE None

Digits == "0123456789"

\* whether float(s) succeeds, for the plain decimal notation
IsFloat(s) ==
    /\ \E i \in 1..Len(s) : In(CharAt(s, i), Digits)
    /\ \A i \in 1..Len(s) : In(CharAt(s, i), Digits) \/ CharAt(s, i) = "."
    /\ Cardinality({i \in 1..Len(s) : CharAt(s, i) = "."}) <= 1

(***************************************************************************)
(* The session, the environment and the collaborators' outcomes            *)
(***************************************************************************)
INITIAL_FILE_CONTENT == ""
INITIAL_READ_POSITION == 0
INITIAL_TRANSLATION_LANGUAGE == "en"

VARIABLES
    current_file_content,   \* the loaded text
    read_position,          \* the cursor into current_file_content
    translation_language,   \* the target language code
    available,              \* MOVIEPY_AVAILABLE, PYTUBE_AVAILABLE, REQUESTS_AVAILABLE
    chunk_size,             \* the chunk size the /read_chunk handler passes
    request,                \* the request served last
    response,               \* the response to it
    prev,                   \* the session as it was before that request
    run,                    \* the ranges read since the last /command request
    cleared,                \* a reset was answered, and no load answered
                            \* with success since
    inflight,               \* the requests the server's threads are handling
                            \* at the same time, each at a statement
    client,                 \* the page of the web client: isReading and
                            \* hasContent
    desktop                 \* the desktop program: tts_engine_running and
                            \* its read_file_content threads

vars == <<current_file_content, read_position, translation_language,
          available, chunk_size, request, response, prev, run, cleared,
          inflight, client, desktop>>

Session == [content |-> current_file_content,
            cursor |-> read_position,
            target |-> translation_language]

\* the session at process start
InitialSession ==
    [content |-> INITIAL_FILE_CONTENT, cursor |-> INITIAL_READ_POSITION,
     target |-> INITIAL_TRANSLATION_LANGUAGE]

\* the threads of the server that handle requests at the same time
Threads == {"first", "second"}

\* a thread that handles no request
Idle == [op |-> "none", pc |-> "done", start |-> 0, chunk_end |-> 0,
         chunk |-> "", loading |-> "", response |-> [status |-> "none"]]

\* requests are served one at a time
Serial == [t \in Threads |-> Idle]

\* no page is open: the requests come from anywhere
NoPage == [variant |-> "none", isReading |-> FALSE, hasContent |-> FALSE,
           last |-> "none"]

\* a read_file_content thread of the desktop program that is not running
NoReader == [pc |-> "idle", chunk_end |-> 0, stopped |-> FALSE]

\* the desktop program is not running
NoDesktop == [tts_engine_running |-> FALSE,
              readers |-> [t \in Threads |-> NoReader]]

\* the text of a document or of a transcript of n characters
Letters == "abcdefgh"
RECURSIVE Text(_)
Text(n) ==
    IF n <= Len(Letters) THEN SubSeq(Letters, 1, n)
    ELSE Letters \o Text(n - Len(Letters))

\* translator.translate(text, dest).text when the call succeeds: a text that
\* differs from the original in every character
RECURSIVE Translate(_)
Translate(text) ==
    IF text = "" THEN "" ELSE UpperChar(CharAt(text, 1)) \o Translate(Tail(text))

\* the files of FILE_STORAGE_PATH
STORAGE == {"notes.txt", "city.mp4", "data.csv"}

TEXT_EXTRACTION_FILES == {".txt", ".pdf", ".docx", ".pptx"}
MEDIA_FILES == {".mp4", ".mov", ".avi", ".mkv", ".wmv"}

\* os.path.splitext(name)[1].lower(): the extension starts at the last dot,
\* unless only dots precede it
file_extension(name) ==
    LET dot == RFind(name, ".") IN
    IF dot = 0 \/ \A i \in 1..(dot - 1) : CharAt(name, i) = "." THEN ""
    ELSE Lower(SubSeq(name, dot, Len(name)))

\* What the collaborators of one request answer.  A field is "na" when the
\* request does not reach that collaborator.
NoEnv == [search |-> "na", stream |-> "na", download |-> "na", audio |-> "na",
          stt |-> "na", detect |-> "na", translate |-> "na", title |-> "na",
          extract |-> "na", open |-> "na", n |-> 0]

\* recognition, language detection and translation, in the order of the calls
SpeechEnvs ==
    {[NoEnv EXCEPT !.stt = x] : x \in {"empty", "raise"}}
    \cup {[NoEnv EXCEPT !.stt = "text", !.n = MaxLen, !.detect = d] :
            d \in {"target", "raise"}}
    \cup {[NoEnv EXCEPT !.stt = "text", !.n = MaxLen, !.detect = "other",
                        !.translate = t] :
            t \in {"ok", "empty", "raise"}}

\* search_youtube_simple
SearchEnvs == {[NoEnv EXCEPT !.search = x] : x \in {"found", "none"}}

\* the YouTube transcription pipeline: search, stream lookup, download,
\* speech pipeline, and the title read for the message
YoutubeEnvs ==
    {[NoEnv EXCEPT !.search = "none"]}
    \cup {[NoEnv EXCEPT !.search = "found", !.stream = x] : x \in {"none", "raise"}}
    \cup {[NoEnv EXCEPT !.search = "found", !.stream = "audio", !.download = x] :
            x \in {"raise", "partial_raise"}}
    \cup {[e EXCEPT !.search = "found", !.stream = "audio", !.download = "ok",
                    !.title = t] :
            e \in SpeechEnvs, t \in {"ok", "raise"}}

\* a file command, by what handle_open_file does with the file: text
\* extraction, the system open, local transcription, or nothing
FileEnvs(kind) ==
    CASE kind = "text" ->
            {[NoEnv EXCEPT !.extract = "text", !.n = k] : k \in 1..MaxLen}
            \cup {[NoEnv EXCEPT !.extract = x] : x \in {"empty", "raise"}}
      [] kind = "media" ->
            {[NoEnv EXCEPT !.open = x] : x \in {"opened", "other_os", "raise"}}
      [] kind = "transcribe" ->
            {[NoEnv EXCEPT !.audio = "raise"]}
            \cup {[e EXCEPT !.audio = "ok"] : e \in SpeechEnvs}
      [] OTHER -> {NoEnv}

\* translator.translate inside get_next_chunk
ChunkEnvs == {[NoEnv EXCEPT !.translate = x] : x \in {"ok", "raise"}}

(***************************************************************************)
(* Handlers.  Each takes the session s (and what else it reads) and gives  *)
(* the session after it, its response, the temporary files it wrote, those *)
(* it removed, and whether it raised.                                      *)
(***************************************************************************)
Reply(status, action, url) == [status |-> status, action |-> action, url |-> url]

\* a handler that returns None
NoReply == Reply(None, None, None)

Outcome(s, reply, written, removed) ==
    [session |-> s, response |-> reply, written |-> written, removed |-> removed,
     raised |-> FALSE, failed |-> ""]

\* the outcome o of a handler that caught the exception of a speech,
\* detection or translation step ("" when it caught none)
Failed(o, step) == [o EXCEPT !.failed = step]

\* an exception that leaves the handler
Raised(s, written, removed) ==
    [session |-> s, response |-> NoReply, written |-> written, removed |-> removed,
     raised |-> TRUE, failed |-> ""]

Loaded(s, text, target) == [content |-> text, cursor |-> 0, target |-> target]

\* a reset that clears the content and forgets the cursor
handle_reset_command_keeping_cursor(s) ==
    Outcome([s EXCEPT !.content = INITIAL_FILE_CONTENT],
            Reply("success", "stop_read", None), {}, {})

\* a reset that also reverts the target language
handle_reset_command_reverting_target(s) ==
    Outcome([s EXCEPT !.content = INITIAL_FILE_CONTENT,
                      !.cursor = INITIAL_READ_POSITION,
                      !.target = INITIAL_TRANSLATION_LANGUAGE],
            Reply("success", "stop_read", None), {}, {})

handle_reset_command(s) ==
    Outcome([s EXCEPT !.content = INITIAL_FILE_CONTENT,
                      !.cursor = INITIAL_READ_POSITION],
            Reply("success", "stop_read", None), {}, {})

\* recognize_google, translator.detect and translator.translate of the two
\* transcription functions: whether one of them raised, and final_content
Transcript(e) ==
    IF e.stt # "text" THEN [raised |-> TRUE, text |-> "", step |-> "stt"]
    ELSE IF e.detect = "raise" THEN [raised |-> TRUE, text |-> "", step |-> "detect"]
    ELSE IF e.detect = "target" THEN [raised |-> FALSE, text |-> Text(e.n), step |-> ""]
    ELSE IF e.translate = "raise"
    THEN [raised |-> TRUE, text |-> "", step |-> "translate"]
    ELSE IF e.translate = "empty" THEN [raised |-> FALSE, text |-> "", step |-> ""]
    ELSE [raised |-> FALSE, text |-> Translate(Text(e.n)), step |-> ""]

\* the temporary file is made before the try and removed in its finally clause
transcribe_video_audio(requested_target_lang, s, av, e) ==
    IF ~av.moviepy THEN Outcome(s, Reply("error", None, None), {}, {})
    ELSE LET audio_file_path == "tmp.wav"
             t == Transcript(e)
         IN IF e.audio = "raise"
            THEN Outcome(s, Reply("error", None, None),
                         {audio_file_path}, {audio_file_path})
            ELSE IF t.raised
            THEN Failed(Outcome(s, Reply("error", None, None),
                                {audio_file_path}, {audio_file_path}), t.step)
            ELSE IF t.text = ""
            THEN Outcome(s, Reply("error", None, None),
                         {audio_file_path}, {audio_file_path})
            ELSE Outcome(Loaded(s, t.text, requested_target_lang),
                         Reply("success", "start_read", None),
                         {audio_file_path}, {audio_file_path})

transcribe_youtube_audio_real(requested_target_lang, s, av, e) ==
    LET audio_filename == "yt_audio"
        error == Reply("error", None, None)
        t == Transcript(e)
    IN IF ~av.pytube THEN Outcome(s, error, {}, {})
       ELSE IF ~av.requests THEN Outcome(s, error, {}, {})
       ELSE IF e.search # "found" THEN Outcome(s, error, {}, {})
       ELSE IF e.stream # "audio" THEN Outcome(s, error, {}, {})
       \* the download raised before it wrote anything, or gave no file
       ELSE IF e.download = "raise" THEN Outcome(s, error, {}, {})
       \* the download raised after it began to write the file: downloaded_file
       \* is still None and the finally clause removes nothing
       ELSE IF e.download = "partial_raise"
       THEN Outcome(s, error, {audio_filename}, {})
       ELSE IF t.raised
       THEN Failed(Outcome(s, error, {audio_filename}, {audio_filename}), t.step)
       \* the session is written, then yt.title is read for the message
       ELSE IF e.title = "raise"
       THEN Raised(Loaded(s, t.text, requested_target_lang),
                   {audio_filename}, {audio_filename})
       ELSE Outcome(Loaded(s, t.text, requested_target_lang),
                    Reply("success", "start_read", None),
                    {audio_filename}, {audio_filename})

\* search_youtube_simple(query): whether a video id was found
search_youtube_simple(av, e) == av.requests /\ e.search = "found"

\* NoReply when there is no query
handle_youtube_command(query, av, e) ==
    IF ~Truthy(query) THEN NoReply
    ELSE IF ~av.requests THEN Reply("error", None, None)
    ELSE IF search_youtube_simple(av, e)
    THEN Reply("action", "play_youtube_embedded", None)
    ELSE Reply("action", "play_youtube",
               "https://www.youtube.com/results?search_query="
                   \o Replace(query, " ", "%20"))

\* which of its cases handle_open_file takes for the file
file_kind(file_name_raw, command_text) ==
    LET file_name == Strip(file_name_raw)
        ext == file_extension(file_name)
    IN IF file_name \notin STORAGE THEN "missing"
       ELSE IF ext \in MEDIA_FILES /\ In("transcribe", command_text) THEN "transcribe"
       ELSE IF ext \in MEDIA_FILES THEN "media"
       ELSE IF ext \in TEXT_EXTRACTION_FILES THEN "text"
       ELSE "unsupported"

\* a media file loaded for reading, as a document is
handle_open_file_reading_media(kind, langs, s, av, e) ==
    LET target_lang == IF Truthy(langs[1]) THEN langs[1] ELSE s.target IN
    CASE kind = "missing" -> Outcome(s, Reply("error", None, None), {}, {})
      [] kind = "transcribe" -> transcribe_video_audio(target_lang, s, av, e)
      [] kind = "media" ->
            IF e.open \in {"opened", "other_os"}
            THEN Outcome([s EXCEPT !.content = Text(MaxLen), !.cursor = 0],
                         Reply("success", "start_read", None), {}, {})
            ELSE Outcome(s, Reply("error", None, None), {}, {})
      [] kind = "text" ->
            IF e.extract = "text"
            THEN Outcome([s EXCEPT !.content = Text(e.n), !.cursor = 0],
                         Reply("success", "start_read", None), {}, {})
            ELSE Outcome(s, Reply("error", None, None), {}, {})
      [] OTHER -> Outcome(s, Reply("error", None, None), {}, {})

\* a document loaded with the initial target language
handle_open_file_resetting_target(kind, langs, s, av, e) ==
    LET target_lang == IF Truthy(langs[1]) THEN langs[1] ELSE s.target IN
    CASE kind = "missing" -> Outcome(s, Reply("error", None, None), {}, {})
      [] kind = "transcribe" -> transcribe_video_audio(target_lang, s, av, e)
      [] kind = "media" ->
            IF e.open \in {"opened", "other_os"}
            THEN Outcome(s, Reply("info", None, None), {}, {})
            ELSE Outcome(s, Reply("error", None, None), {}, {})
      [] kind = "text" ->
            IF e.extract = "text"
            THEN Outcome([s EXCEPT !.content = Text(e.n), !.cursor = 0,
                                   !.target = INITIAL_TRANSLATION_LANGUAGE],
                         Reply("success", "start_read", None), {}, {})
            ELSE Outcome(s, Reply("error", None, None), {}, {})
      [] OTHER -> Outcome(s, Reply("error", None, None), {}, {})

handle_open_file(kind, langs, s, av, e) ==
    LET target_lang == IF Truthy(langs[1]) THEN langs[1] ELSE s.target IN
    CASE kind = "missing" -> Outcome(s, Reply("error", None, None), {}, {})
      [] kind = "transcribe" -> transcribe_video_audio(target_lang, s, av, e)
      [] kind = "media" ->
            IF e.open \in {"opened", "other_os"}
            THEN Outcome(s, Reply("info", None, None), {}, {})
            ELSE Outcome(s, Reply("error", None, None), {}, {})
      [] kind = "text" ->
            IF e.extract = "text"
            THEN Outcome([s EXCEPT !.content = Text(e.n), !.cursor = 0],
                         Reply("success", "start_read", None), {}, {})
            ELSE Outcome(s, Reply("error", None, None), {}, {})
      [] OTHER -> Outcome(s, Reply("error", None, None), {}, {})

(***************************************************************************)
(* The double-precision arithmetic of get_next_chunk's progress: integers   *)
(* too wide for the checker are sequences of bits, most significant first,  *)
(* and a double is bits * 2^exp                                             *)
(***************************************************************************)
\* the bits of an IEEE 754 double's significand
DOUBLE_MANTISSA_BITS == 53

Zeros(n) == [i \in 1..n |-> 0]

\* the bits without their leading zeros
StripZeros(bits) ==
    LET ones == {i \in 1..Len(bits) : bits[i] = 1} IN
    IF ones = {} THEN << >>
    ELSE SubSeq(bits, CHOOSE i \in ones : \A j \in ones : i <= j, Len(bits))

\* the bits lo..hi of a + b for two bit sequences of the same length, and
\* the carry out of them, the right half added before the left
RECURSIVE AddAligned(_, _, _, _, _)
AddAligned(a, b, lo, hi, carry) ==
    IF lo > hi THEN [bits |-> << >>, carry |-> carry]
    ELSE IF lo = hi
    THEN [bits |-> <<(a[lo] + b[lo] + carry) % 2>>,
          carry |-> (a[lo] + b[lo] + carry) \div 2]
    ELSE LET mid == (lo + hi) \div 2
             right == AddAligned(a, b, mid + 1, hi, carry)
             left == IF right.carry = 1 THEN AddAligned(a, b, lo, mid, 1)
                     ELSE AddAligned(a, b, lo, mid, 0)
         IN [bits |-> left.bits \o right.bits, carry |-> left.carry]

AddBits(a, b) ==
    LET n == IF Len(a) > Len(b) THEN Len(a) ELSE Len(b)
        x == Zeros(n - Len(a)) \o a
        y == Zeros(n - Len(b)) \o b
        sum == AddAligned(x, y, 1, n, 0)
    IN StripZeros(<<sum.carry>> \o sum.bits)

RECURSIVE BitsOf(_)
BitsOf(n) == IF n = 0 THEN << >> ELSE Append(BitsOf(n \div 2), n % 2)

RECURSIVE ValueOf(_)
ValueOf(bits) ==
    IF bits = << >> THEN 0
    ELSE 2 * ValueOf(SubSeq(bits, 1, Len(bits) - 1)) + bits[Len(bits)]

\* round-half-even of bits * 2^exp, the bits after the first
\* DOUBLE_MANTISSA_BITS dropped; sticky tells that the value is above the bits
RoundToDouble(bits, exp, sticky) ==
    LET d == Len(bits) - DOUBLE_MANTISSA_BITS IN
    IF d <= 0 THEN [bits |-> bits, exp |-> exp]
    ELSE LET kept == SubSeq(bits, 1, DOUBLE_MANTISSA_BITS)
             dropped == SubSeq(bits, DOUBLE_MANTISSA_BITS + 1, Len(bits))
             above == sticky \/ \E i \in 2..d : dropped[i] = 1
             up == dropped[1] = 1 /\ (above \/ kept[DOUBLE_MANTISSA_BITS] = 1)
         IN [bits |-> IF up THEN AddBits(kept, <<1>>) ELSE kept,
             exp |-> exp + d]

\* n more bits of the quotient r / d, r < d, and the remainder after them:
\* long division, the first half of the bits before the second
RECURSIVE LongDivision(_, _, _)
LongDivision(r, d, n) ==
    IF n = 0 THEN [bits |-> << >>, rem |-> r]
    ELSE IF n = 1
    THEN LET b == IF 2 * r >= d THEN 1 ELSE 0 IN
         [bits |-> <<b>>, rem |-> 2 * r - b * d]
    ELSE LET first == LongDivision(r, d, n \div 2)
             second == LongDivision(first.rem, d, n - n \div 2)
         IN [bits |-> first.bits \o second.bits, rem |-> second.rem]

\* the least e with n * 2^e >= d
RECURSIVE Scale(_, _)
Scale(n, d) == IF n >= d THEN 0 ELSE 1 + Scale(2 * n, d)

\* Python's n / d for integers 0 <= n <= d, d > 0: the double nearest to the
\* quotient
true_divide(n, d) ==
    IF n = 0 THEN [bits |-> << >>, exp |-> 0]
    ELSE LET e == Scale(n, d)
             first == IF e = 0 THEN n \div d ELSE 1
             r == IF e = 0 THEN n % d ELSE n * (2 ^ e) - d
             q == LongDivision(r, d, DOUBLE_MANTISSA_BITS)
         IN RoundToDouble(BitsOf(first) \o q.bits, 0 - e - DOUBLE_MANTISSA_BITS,
                          q.rem # 0)

\* x * 100 for a double x: the product 64x + 32x + 4x rounded to a double
times_100(x) ==
    LET product == AddBits(AddBits(x.bits \o Zeros(6), x.bits \o Zeros(5)),
                           x.bits \o Zeros(2))
    IN RoundToDouble(product, x.exp, FALSE)

\* int(x) for a double x >= 0 below 2^31: the fraction is cut off
int(x) ==
    IF x.exp >= 0 THEN ValueOf(x.bits) * (2 ^ x.exp)
    ELSE IF Len(x.bits) + x.exp <= 0 THEN 0
    ELSE ValueOf(SubSeq(x.bits, 1, Len(x.bits) + x.exp))

\* int((read_position / len(current_file_content)) * 100)
progress_percent(position, length) == int(times_100(true_divide(position, length)))

\* progress_percent of every cursor in every document of the model, computed
\* once
PROGRESS_TABLE ==
    [length \in 1..MaxDocument |->
        [position \in 1..length |-> progress_percent(position, length)] \o << >>]
    \o << >>

Progress(position, length) ==
    IF length \in 1..MaxDocument /\ position \in 1..length
    THEN PROGRESS_TABLE[length][position]
    ELSE progress_percent(position, length)

\* the responses of /read_chunk: 'reading' carries a progress, 'done' none
Chunk(status, chunk, message, progress) ==
    [status |-> status, chunk |-> chunk, message |-> message, progress |-> progress]

Done(message) == [status |-> "done", chunk |-> "", message |-> message]

\* a chunk end that is not clamped to the length of the content
get_next_chunk_unclamped(size, s, e) ==
    IF s.content = ""
    THEN Outcome(s, Done("No file loaded."), {}, {})
    ELSE IF s.cursor >= Len(s.content)
    THEN Outcome([s EXCEPT !.cursor = Len(s.content)],
                 Done("End of file reached."), {}, {})
    ELSE LET chunk_end == s.cursor + size
             original_chunk ==
                 SubSeq(s.content, s.cursor + 1, Min(chunk_end, Len(s.content)))
             translated_chunk ==
                 IF s.target # "en" /\ e.translate = "ok"
                 THEN Translate(original_chunk) ELSE original_chunk
         IN Failed(Outcome([s EXCEPT !.cursor = chunk_end],
                           Chunk("reading", translated_chunk, "Reading chunk.",
                                 Progress(chunk_end, Len(s.content))),
                           {}, {}),
                   IF s.target # "en" /\ e.translate = "raise"
                   THEN "translate" ELSE "")

\* a chunk that ends one character early: with a chunk size of 1 it is empty
get_next_chunk_stalled(size, s, e) ==
    IF s.content = ""
    THEN Outcome(s, Done("No file loaded."), {}, {})
    ELSE IF s.cursor >= Len(s.content)
    THEN Outcome([s EXCEPT !.cursor = Len(s.content)],
                 Done("End of file reached."), {}, {})
    ELSE LET chunk_end == Min(s.cursor + size - 1, Len(s.content))
             original_chunk == SubSeq(s.content, s.cursor + 1, chunk_end)
             translated_chunk ==
                 IF s.target # "en" /\ e.translate = "ok"
                 THEN Translate(original_chunk) ELSE original_chunk
         IN Failed(Outcome([s EXCEPT !.cursor = chunk_end],
                           Chunk("reading", translated_chunk, "Reading chunk.",
                                 Progress(chunk_end, Len(s.content))),
                           {}, {}),
                   IF s.target # "en" /\ e.translate = "raise"
                   THEN "translate" ELSE "")

\* with nothing loaded, the session is put back to its initial values
get_next_chunk_reset_on_empty(size, s, e) ==
    IF s.content = ""
    THEN Outcome([s EXCEPT !.cursor = INITIAL_READ_POSITION,
                           !.target = INITIAL_TRANSLATION_LANGUAGE],
                 Done("No file loaded."), {}, {})
    ELSE IF s.cursor >= Len(s.content)
    THEN Outcome([s EXCEPT !.cursor = Len(s.content)],
                 Done("End of file reached."), {}, {})
    ELSE LET chunk_end == Min(s.cursor + size, Len(s.content))
             original_chunk == SubSeq(s.content, s.cursor + 1, chunk_end)
             translated_chunk ==
                 IF s.target # "en" /\ e.translate = "ok"
                 THEN Translate(original_chunk) ELSE original_chunk
         IN Failed(Outcome([s EXCEPT !.cursor = chunk_end],
                           Chunk("reading", translated_chunk, "Reading chunk.",
                                 Progress(chunk_end, Len(s.content))),
                           {}, {}),
                   IF s.target # "en" /\ e.translate = "raise"
                   THEN "translate" ELSE "")

\* at the end of the content the cursor goes back to the start
get_next_chunk_wrapping(size, s, e) ==
    IF s.content = ""
    THEN Outcome(s, Done("No file loaded."), {}, {})
    ELSE IF s.cursor >= Len(s.content)
    THEN Outcome([s EXCEPT !.cursor = INITIAL_READ_POSITION],
                 Done("End of file reached."), {}, {})
    ELSE LET chunk_end == Min(s.cursor + size, Len(s.content))
             original_chunk == SubSeq(s.content, s.cursor + 1, chunk_end)
             translated_chunk ==
                 IF s.target # "en" /\ e.translate = "ok"
                 THEN Translate(original_chunk) ELSE original_chunk
         IN Failed(Outcome([s EXCEPT !.cursor = chunk_end],
                           Chunk("reading", translated_chunk, "Reading chunk.",
                                 Progress(chunk_end, Len(s.content))),
                           {}, {}),
                   IF s.target # "en" /\ e.translate = "raise"
                   THEN "translate" ELSE "")

\* a translation failure that is not caught: the request fails and the
\* cursor stays
get_next_chunk_failing_with_translation(size, s, e) ==
    IF s.content = ""
    THEN Outcome(s, Done("No file loaded."), {}, {})
    ELSE IF s.cursor >= Len(s.content)
    THEN Outcome([s EXCEPT !.cursor = Len(s.content)],
                 Done("End of file reached."), {}, {})
    ELSE IF s.target # "en" /\ e.translate = "raise"
    THEN Failed(Outcome(s, [status |-> "error", chunk |-> "",
                            message |-> "A server error occurred."], {}, {}),
                "translate")
    ELSE LET chunk_end == Min(s.cursor + size, Len(s.content))
             original_chunk == SubSeq(s.content, s.cursor + 1, chunk_end)
             translated_chunk ==
                 IF s.target # "en" THEN Translate(original_chunk) ELSE original_chunk
         IN Outcome([s EXCEPT !.cursor = chunk_end],
                    Chunk("reading", translated_chunk, "Reading chunk.",
                          Progress(chunk_end, Len(s.content))),
                    {}, {})

get_next_chunk(size, s, e) ==
    IF s.content = ""
    THEN Outcome(s, Done("No file loaded."), {}, {})
    ELSE IF s.cursor >= Len(s.content)
    THEN Outcome([s EXCEPT !.cursor = Len(s.content)],
                 Done("End of file reached."), {}, {})
    ELSE LET chunk_end == Min(s.cursor + size, Len(s.content))
             original_chunk == SubSeq(s.content, s.cursor + 1, chunk_end)
             translated_chunk ==
                 IF s.target # "en" /\ e.translate = "ok"
                 THEN Translate(original_chunk) ELSE original_chunk
         IN Failed(Outcome([s EXCEPT !.cursor = chunk_end],
                           Chunk("reading", translated_chunk, "Reading chunk.",
                                 Progress(chunk_end, Len(s.content))),
                           {}, {}),
                   IF s.target # "en" /\ e.translate = "raise"
                   THEN "translate" ELSE "")

\* the text parsing of handle_translation_command: whether the command has
\* a "to", and the code of the language named after the last one
translation_request(command) ==
    IF In("to", command)
    THEN [named |-> TRUE,
          lang_code |-> get_language_code(Strip(SplitLast(command, "to")))]
    ELSE [named |-> FALSE, lang_code |-> None]

\* the cursor rewound when the target language is set
handle_translation_command_rewinding(t, s) ==
    IF t.named
    THEN IF Truthy(t.lang_code)
         THEN Outcome([s EXCEPT !.target = t.lang_code, !.cursor = 0],
                      Reply("success", None, None), {}, {})
         ELSE Outcome(s, Reply("error", None, None), {}, {})
    ELSE Outcome(s, Reply("info", None, None), {}, {})

handle_translation_command(t, s) ==
    IF t.named
    THEN IF Truthy(t.lang_code)
         THEN Outcome([s EXCEPT !.target = t.lang_code],
                      Reply("success", None, None), {}, {})
         ELSE Outcome(s, Reply("error", None, None), {}, {})
    ELSE Outcome(s, Reply("info", None, None), {}, {})

\* resume taken for restart
control_request_resume_restarts(command) ==
    IF StartsWith(command, "set reading speed to")
    THEN IF IsFloat(Strip(SplitLast(command, "to"))) THEN "rate" ELSE "invalid_rate"
    ELSE IF command \in {"restart", "resume"} THEN "restart"
    ELSE IF command \in {"stop", "pause"} THEN "pause"
    ELSE "other"

\* the text parsing of handle_control_command: which of its cases the command is
control_request(command) ==
    IF StartsWith(command, "set reading speed to")
    THEN IF IsFloat(Strip(SplitLast(command, "to"))) THEN "rate" ELSE "invalid_rate"
    ELSE IF command = "restart" THEN "restart"
    ELSE IF command = "resume" THEN "resume"
    ELSE IF command \in {"stop", "pause"} THEN "pause"
    ELSE "other"

\* restart answered without moving the cursor
handle_control_command_restarting_in_place(c, s) ==
    CASE c = "rate" -> Outcome(s, Reply("action", "set_rate", None), {}, {})
      [] c = "invalid_rate" -> Outcome(s, Reply("error", None, None), {}, {})
      [] c = "restart" ->
            IF s.content = ""
            THEN Outcome(s, Reply("info", None, None), {}, {})
            ELSE Outcome(s, Reply("action", "start_read", None), {}, {})
      [] c = "resume" ->
            IF s.content = "" THEN Outcome(s, Reply("info", None, None), {}, {})
            ELSE IF s.cursor >= Len(s.content)
            THEN Outcome(s, Reply("info", None, None), {}, {})
            ELSE Outcome(s, Reply("action", "start_read", None), {}, {})
      [] OTHER -> Outcome(s, Reply("info", None, None), {}, {})

\* resume answered without looking at the content
handle_control_command_resuming_unchecked(c, s) ==
    CASE c = "rate" -> Outcome(s, Reply("action", "set_rate", None), {}, {})
      [] c = "invalid_rate" -> Outcome(s, Reply("error", None, None), {}, {})
      [] c = "restart" ->
            IF s.content = ""
            THEN Outcome(s, Reply("info", None, None), {}, {})
            ELSE Outcome([s EXCEPT !.cursor = 0],
                         Reply("action", "start_read", None), {}, {})
      [] c = "resume" -> Outcome(s, Reply("action", "start_read", None), {}, {})
      [] OTHER -> Outcome(s, Reply("info", None, None), {}, {})

\* resume at the end of the content answered as a restart
handle_control_command_resuming_from_start(c, s) ==
    CASE c = "rate" -> Outcome(s, Reply("action", "set_rate", None), {}, {})
      [] c = "invalid_rate" -> Outcome(s, Reply("error", None, None), {}, {})
      [] c = "restart" ->
            IF s.content = ""
            THEN Outcome(s, Reply("info", None, None), {}, {})
            ELSE Outcome([s EXCEPT !.cursor = 0],
                         Reply("action", "start_read", None), {}, {})
      [] c = "resume" ->
            IF s.content = "" THEN Outcome(s, Reply("info", None, None), {}, {})
            ELSE IF s.cursor >= Len(s.content)
            THEN Outcome([s EXCEPT !.cursor = 0],
                         Reply("action", "start_read", None), {}, {})
            ELSE Outcome(s, Reply("action", "start_read", None), {}, {})
      [] OTHER -> Outcome(s, Reply("info", None, None), {}, {})

handle_control_command(c, s) ==
    CASE c = "rate" -> Outcome(s, Reply("action", "set_rate", None), {}, {})
      [] c = "invalid_rate" -> Outcome(s, Reply("error", None, None), {}, {})
      [] c = "restart" ->
            IF s.content = ""
            THEN Outcome(s, Reply("info", None, None), {}, {})
            ELSE Outcome([s EXCEPT !.cursor = 0],
                         Reply("action", "start_read", None), {}, {})
      [] c = "resume" ->
            IF s.content = "" THEN Outcome(s, Reply("info", None, None), {}, {})
            ELSE IF s.cursor >= Len(s.content)
            THEN Outcome(s, Reply("info", None, None), {}, {})
            ELSE Outcome(s, Reply("action", "start_read", None), {}, {})
      [] OTHER -> Outcome(s, Reply("info", None, None), {}, {})

\* every order answered with the generic search, the vendors forgotten
handle_web_action_command_without_vendors(question) ==
    IF In("order", question)
    THEN LET item == Strip(Replace(Replace(question, "order", ""), "online", "")) IN
         IF item # ""
         THEN Reply("action", "open_url",
                    "https://www.google.com/search?q=best+quality+" \o item
                        \o "+to+order")
         ELSE Reply("info", None, None)
    ELSE IF In("search", question)
    THEN LET query == Strip(Replace(Replace(question, "search", ""), "web", "")) IN
         IF query # ""
         THEN Reply("action", "open_url", "https://www.google.com/search?q=" \o query)
         ELSE Reply("info", None, None)
    ELSE NoReply

\* NoReply when the command is neither an order nor a search
handle_web_action_command(question) ==
    IF In("order", question)
    THEN LET item == Strip(Replace(Replace(question, "order", ""), "online", "")) IN
         IF In("pizza", item)
         THEN Reply("action", "open_url", "https://www.dominos.com/")
         ELSE IF In("book", item)
         THEN Reply("action", "open_url", "https://www.amazon.com/")
         ELSE IF item # ""
         THEN Reply("action", "open_url",
                    "https://www.google.com/search?q=best+quality+" \o item
                        \o "+to+order")
         ELSE Reply("info", None, None)
    ELSE IF In("search", question)
    THEN LET query == Strip(Replace(Replace(question, "search", ""), "web", "")) IN
         IF query # ""
         THEN Reply("action", "open_url", "https://www.google.com/search?q=" \o query)
         ELSE Reply("info", None, None)
    ELSE NoReply

(***************************************************************************)
(* The /command dispatcher                                                 *)
(***************************************************************************)
\* the request bodies: the "question" strings sent to /command
Commands ==
    {"reset", " Forget All ",
     "play lofi on youtube", "play youtube", "play order pizza on youtube",
     "transcribe lofi on youtube", "transcribe youtube",
     "transcribe lofi on youtube translate to french",
     "translate search on youtube",
     "order pizza", "order", "search cats", "search open notes.txt",
     "open notes.txt", "open missing.txt", "open data.csv",
     "play city.mp4", "transcribe city dot mp4",
     "open notes.txt and translate to french",
     "translate to french", "translate to klingon",
     "set reading speed to 2 translate to french",
     "restart", "resume", "continue", "stop", "pause",
     "set reading speed to 1.5", "set reading speed to fast",
     "translate to spanish from french my_video.mp4",
     "transcribe playlist dot mp4", "search cats on youtube",
     "translate to hebrew from french my_video.mp4",
     "open it and read notes.txt",
     "translate to estonian",
     "transcribe hindi lofi on youtube",
     "hello"}

RESET_PHRASES == {"reset", "forget", "clear memory", "forget all"}
CONTROL_WORDS == {"restart", "resume", "stop", "pause", "continue"}

\* the web action tested before the YouTube commands
route_web_first(question) ==
    IF question \in RESET_PHRASES THEN "reset"
    ELSE IF handle_web_action_command(question) # NoReply THEN "web"
    ELSE IF /\ In("play", question) \/ In("watch", question)
            /\ In("youtube", question)
            /\ ~In("transcribe", question)
            /\ ~In("translate", question)
            /\ Truthy(extract_youtube_query(question))
    THEN "youtube_play"
    ELSE IF /\ In("transcribe", question) \/ In("translate", question)
            /\ In("youtube", question)
    THEN "youtube_transcribe"
    ELSE IF /\ Truthy(extract_filename_from_command(question))
            /\ \E cmd \in {"open", "read", "transcribe", "play"} : In(cmd, question)
    THEN "file"
    ELSE IF In("translate to", question) THEN "translate"
    ELSE IF question \in CONTROL_WORDS \/ StartsWith(question, "set reading speed to")
    THEN "control"
    ELSE "conversation"

\* the branch of command_handler's chain of tests that answers the question:
\* the playback branch answers only when handle_youtube_command finds a query,
\* and the chain goes on to the next test when it does not
route(question) ==
    IF question \in RESET_PHRASES THEN "reset"
    ELSE IF /\ In("play", question) \/ In("watch", question)
            /\ In("youtube", question)
            /\ ~In("transcribe", question)
            /\ ~In("translate", question)
            /\ Truthy(extract_youtube_query(question))
    THEN "youtube_play"
    ELSE IF /\ In("transcribe", question) \/ In("translate", question)
            /\ In("youtube", question)
    THEN "youtube_transcribe"
    ELSE IF handle_web_action_command(question) # NoReply THEN "web"
    ELSE IF /\ Truthy(extract_filename_from_command(question))
            /\ \E cmd \in {"open", "read", "transcribe", "play"} : In(cmd, question)
    THEN "file"
    ELSE IF In("translate to", question) THEN "translate"
    ELSE IF question \in CONTROL_WORDS \/ StartsWith(question, "set reading speed to")
    THEN "control"
    ELSE "conversation"

\* what command_handler computes from the request body alone
Parse(raw) ==
    LET question == Lower(Strip(raw)) IN
    [raw |-> raw,
     question |-> question,
     route |-> route(question),
     query |-> extract_youtube_query(question),
     file_name |-> extract_filename_from_command(question),
     file_kind |-> file_kind(extract_filename_from_command(question), question),
     web |-> handle_web_action_command(question),
     translation |-> translation_request(question),
     control |-> control_request(IF question = "continue" THEN "resume" ELSE question),
     langs |-> {<<t, extract_language_codes(question, t)>> : t \in LanguageCodes}]

\* the requests, parsed once each
Requests == {Parse(raw) : raw \in Commands}

\* the entry of key in a table of <<key, value>> pairs
Lookup(table, key) == (CHOOSE entry \in table : entry[1] = key)[2]

\* jsonify(response) with has_content attached
Respond(reply, has_content) ==
    [status |-> reply.status, action |-> reply.action, url |-> reply.url,
     has_content |-> has_content, http |-> 200]

\* the except clause of command_handler
ServerError ==
    [status |-> "error", action |-> None, url |-> None,
     has_content |-> FALSE, http |-> 500]

Answer(o, has_content) ==
    [o EXCEPT !.response = IF o.raised THEN ServerError
                           ELSE Respond(o.response, has_content)]

\* the translation branch of smart.py (753-759): start_read whenever content
\* is loaded, whatever the handler answered
command_handler_restarting_on_error(p, s, av, e) ==
    LET has_content == s.content # ""
        langs == Lookup(p.langs, s.target)
        target_lang == IF Truthy(langs[1]) THEN langs[1] ELSE s.target
    IN CASE p.route = "reset" ->
              Answer(handle_reset_command(s), FALSE)
         [] p.route = "youtube_play" ->
              Answer(Outcome(s, handle_youtube_command(p.query, av, e), {}, {}),
                     has_content)
         [] p.route = "youtube_transcribe" ->
              IF ~Truthy(p.query)
              THEN Answer(Outcome(s, Reply("error", None, None), {}, {}), has_content)
              ELSE LET o == transcribe_youtube_audio_real(target_lang, s, av, e) IN
                   Answer(o, o.response.action = "start_read")
         [] p.route = "web" ->
              Answer(Outcome(s, p.web, {}, {}), has_content)
         [] p.route = "file" ->
              LET o == handle_open_file(p.file_kind, langs, s, av, e) IN
              Answer(o, has_content \/ o.response.status = "success")
         [] p.route = "translate" ->
              LET o == handle_translation_command(p.translation, s) IN
              Answer(IF has_content
                     THEN [o EXCEPT !.response.action = "start_read"] ELSE o,
                     has_content)
         [] p.route = "control" ->
              Answer(handle_control_command(p.control, s), has_content)
         [] OTHER ->
              Answer(Outcome(s, Reply("info", None, None), {}, {}), has_content)

\* a command that no branch recognises answered with an error
command_handler_rejecting_unknown(p, s, av, e) ==
    LET has_content == s.content # ""
        langs == Lookup(p.langs, s.target)
        target_lang == IF Truthy(langs[1]) THEN langs[1] ELSE s.target
    IN CASE p.route = "reset" ->
              Answer(handle_reset_command(s), FALSE)
         [] p.route = "youtube_play" ->
              Answer(Outcome(s, handle_youtube_command(p.query, av, e), {}, {}),
                     has_content)
         [] p.route = "youtube_transcribe" ->
              IF ~Truthy(p.query)
              THEN Answer(Outcome(s, Reply("error", None, None), {}, {}), has_content)
              ELSE LET o == transcribe_youtube_audio_real(target_lang, s, av, e) IN
                   Answer(o, o.response.action = "start_read")
         [] p.route = "web" ->
              Answer(Outcome(s, p.web, {}, {}), has_content)
         [] p.route = "file" ->
              LET o == handle_open_file(p.file_kind, langs, s, av, e) IN
              Answer(o, has_content \/ o.response.status = "success")
         [] p.route = "translate" ->
              LET o == handle_translation_command(p.translation, s) IN
              Answer(IF has_content /\ o.response.status = "success"
                     THEN [o EXCEPT !.response.action = "start_read"] ELSE o,
                     has_content)
         [] p.route = "control" ->
              Answer(handle_control_command(p.control, s), has_content)
         [] OTHER ->
              Answer(Outcome(s, Reply("error", None, None), {}, {}), has_content)

\* command_handler for the request p == Parse(raw)
command_handler(p, s, av, e) ==
    LET has_content == s.content # ""
        langs == Lookup(p.langs, s.target)
        target_lang == IF Truthy(langs[1]) THEN langs[1] ELSE s.target
    IN CASE p.route = "reset" ->
              Answer(handle_reset_command(s), FALSE)
         [] p.route = "youtube_play" ->
              Answer(Outcome(s, handle_youtube_command(p.query, av, e), {}, {}),
                     has_content)
         [] p.route = "youtube_transcribe" ->
              IF ~Truthy(p.query)
              THEN Answer(Outcome(s, Reply("error", None, None), {}, {}), has_content)
              ELSE LET o == transcribe_youtube_audio_real(target_lang, s, av, e) IN
                   Answer(o, o.response.action = "start_read")
         [] p.route = "web" ->
              Answer(Outcome(s, p.web, {}, {}), has_content)
         [] p.route = "file" ->
              LET o == handle_open_file(p.file_kind, langs, s, av, e) IN
              Answer(o, has_content \/ o.response.status = "success")
         [] p.route = "translate" ->
              LET o == handle_translation_command(p.translation, s) IN
              Answer(IF has_content /\ o.response.status = "success"
                     THEN [o EXCEPT !.response.action = "start_read"] ELSE o,
                     has_content)
         [] p.route = "control" ->
              Answer(handle_control_command(p.control, s), has_content)
         [] OTHER ->
              Answer(Outcome(s, Reply("info", None, None), {}, {}), has_content)

read_chunk_handler(size, s, e) == get_next_chunk(size, s, e)

(***************************************************************************)
(* The state machine: one step per request                                 *)
(***************************************************************************)
\* the optional libraries found at import: all of them, none for
\* transcription, or no requests
AvailableConfigs ==
    {[moviepy |-> TRUE, pytube |-> TRUE, requests |-> TRUE],
     [moviepy |-> FALSE, pytube |-> FALSE, requests |-> TRUE],
     [moviepy |-> TRUE, pytube |-> TRUE, requests |-> FALSE]}

Init ==
    /\ current_file_content = INITIAL_FILE_CONTENT
    /\ read_position = INITIAL_READ_POSITION
    /\ translation_language = INITIAL_TRANSLATION_LANGUAGE
    /\ available \in AvailableConfigs
    /\ chunk_size \in 1..MaxChunk
    /\ request = [endpoint |-> "none", raw |-> None, branch |-> "none",
                  leaked |-> {}, failed |-> ""]
    /\ response = [status |-> "none"]
    /\ prev = Session
    /\ run = [start |-> 0, ranges |-> << >>, done |-> 0]
    /\ cleared = FALSE
    /\ inflight = Serial
    /\ client = NoPage
    /\ desktop = NoDesktop

\* the request is answered with outcome o
Answered(raw, branch, o) ==
    /\ current_file_content' = o.session.content
    /\ read_position' = o.session.cursor
    /\ translation_language' = o.session.target
    /\ request' = [endpoint |-> "command", raw |-> raw, branch |-> branch,
                   leaked |-> o.written \ o.removed, failed |-> o.failed]
    /\ response' = o.response
    /\ prev' = Session
    /\ run' = [start |-> o.session.cursor, ranges |-> << >>, done |-> 0]
    /\ cleared' = IF branch = "reset" THEN TRUE
                  ELSE IF /\ branch \in {"file", "youtube_transcribe"}
                          /\ o.response.status = "success"
                          /\ o.response.action = "start_read"
                  THEN FALSE
                  ELSE cleared
    /\ UNCHANGED <<available, chunk_size, inflight, desktop>>

\* a request that no page of the model sent
Serve(raw, branch, o) == Answered(raw, branch, o) /\ UNCHANGED client

ResetCommand ==
    \E p \in Requests :
        /\ p.route = "reset"
        /\ Serve(p.raw, p.route, command_handler(p, Session, available, NoEnv))

YoutubePlayCommand ==
    \E p \in Requests : \E e \in SearchEnvs :
        /\ p.route = "youtube_play"
        /\ Serve(p.raw, p.route, command_handler(p, Session, available, e))

\* without a query the pipeline is not entered
YoutubeTranscribeCommand ==
    \E p \in Requests :
        \E e \in IF Truthy(p.query) THEN YoutubeEnvs ELSE {NoEnv} :
            /\ p.route = "youtube_transcribe"
            /\ Serve(p.raw, p.route, command_handler(p, Session, available, e))

WebActionCommand ==
    \E p \in Requests :
        /\ p.route = "web"
        /\ Serve(p.raw, p.route, command_handler(p, Session, available, NoEnv))

FileCommand ==
    \E p \in Requests : \E e \in FileEnvs(p.file_kind) :
        /\ p.route = "file"
        /\ Serve(p.raw, p.route, command_handler(p, Session, available, e))

TranslationCommand ==
    \E p \in Requests :
        /\ p.route = "translate"
        /\ Serve(p.raw, p.route, command_handler(p, Session, available, NoEnv))

ControlCommand ==
    \E p \in Requests :
        /\ p.route = "control"
        /\ Serve(p.raw, p.route, command_handler(p, Session, available, NoEnv))

ConversationCommand ==
    \E p \in Requests :
        /\ p.route = "conversation"
        /\ Serve(p.raw, p.route, command_handler(p, Session, available, NoEnv))

\* a body that is not a JSON object with a string "question": the except clause
MalformedRequest ==
    /\ request' = [endpoint |-> "command", raw |-> None, branch |-> "exception",
                   leaked |-> {}, failed |-> ""]
    /\ response' = ServerError
    /\ prev' = Session
    /\ run' = [start |-> read_position, ranges |-> << >>, done |-> 0]
    /\ UNCHANGED <<current_file_content, read_position, translation_language,
                   available, chunk_size, cleared, inflight, client,
                   desktop>>

\* a /read_chunk request is answered with outcome o
ChunkAnswered(o) ==
    /\ current_file_content' = o.session.content
    /\ read_position' = o.session.cursor
    /\ translation_language' = o.session.target
    /\ request' = [endpoint |-> "read_chunk", raw |-> None,
                   branch |-> "read_chunk", leaked |-> {}, failed |-> o.failed]
    /\ response' = o.response
    /\ prev' = Session
    /\ run' = IF o.response.status = "reading"
              THEN [run EXCEPT !.ranges = Append(@, <<read_position, o.session.cursor>>)]
              ELSE [run EXCEPT !.done = Min(@ + 1, MaxRepeat)]
    /\ UNCHANGED <<available, chunk_size, cleared, inflight, desktop>>

ReadChunk ==
    \E e \in ChunkEnvs :
        /\ ChunkAnswered(read_chunk_handler(chunk_size, Session, e))
        /\ UNCHANGED client

Next ==
    \/ ResetCommand
    \/ YoutubePlayCommand
    \/ YoutubeTranscribeCommand
    \/ WebActionCommand
    \/ FileCommand
    \/ TranslationCommand
    \/ ControlCommand
    \/ ConversationCommand
    \/ MalformedRequest
    \/ ReadChunk

Spec == Init /\ [][Next]_vars

\* the client of /read_chunk keeps asking until it is answered 'done'
FairSpec == Spec /\ WF_vars(ReadChunk)

\* a fresh process that answered "open notes.txt" with success, notes.txt
\* being a text of 1..MaxDocument characters
ProgressInit ==
    /\ \E n \in 1..MaxDocument : current_file_content = Text(n)
    /\ read_position = INITIAL_READ_POSITION
    /\ translation_language = INITIAL_TRANSLATION_LANGUAGE
    /\ available \in AvailableConfigs
    /\ chunk_size \in 1..MaxChunk
    /\ request = [endpoint |-> "command", raw |-> "open notes.txt",
                  branch |-> "file", leaked |-> {}, failed |-> ""]
    /\ response = Respond(Reply("success", "start_read", None), TRUE)
    /\ prev = InitialSession
    /\ run = [start |-> 0, ranges |-> << >>, done |-> 0]
    /\ cleared = FALSE
    /\ inflight = Serial
    /\ client = NoPage
    /\ desktop = NoDesktop

\* the document read to its end, chunk after chunk
ProgressSpec == ProgressInit /\ [][ReadChunk]_vars

(***************************************************************************)
(* Requests handled at the same time: app.run(debug=True) serves each      *)
(* request on a thread of its own and the handlers take no lock, so the    *)
(* statements of two handlers interleave                                   *)
(***************************************************************************)
\* the thread t moves to the record r
At(t, r) == inflight' = [inflight EXCEPT ![t] = r]

\* text[from:to] of Python: the bounds are clamped to the text
Slice(text, from, to) ==
    SubSeq(text, Min(from, Len(text)) + 1, Min(to, Len(text)))

\* the answer of the server to a handler that raised outside any try
Unhandled == [status |-> "unhandled", chunk |-> "", message |-> "ZeroDivisionError"]

\* the globals a handler of a thread leaves alone, and the history of the
\* requests served one at a time
Untouched ==
    UNCHANGED <<translation_language, available, chunk_size, request,
                response, prev, run, cleared, client, desktop>>

\* get_next_chunk, `if not current_file_content`
CheckContent(t) ==
    /\ inflight[t].op = "read_chunk" /\ inflight[t].pc = "check_content"
    /\ IF current_file_content = ""
       THEN At(t, [inflight[t] EXCEPT !.pc = "done",
                                      !.response = Done("No file loaded.")])
       ELSE At(t, [inflight[t] EXCEPT !.pc = "check_end"])
    /\ Untouched /\ UNCHANGED <<current_file_content, read_position>>

\* get_next_chunk, `if read_position >= len(current_file_content)`
CheckEnd(t) ==
    /\ inflight[t].op = "read_chunk" /\ inflight[t].pc = "check_end"
    /\ IF read_position >= Len(current_file_content)
       THEN At(t, [inflight[t] EXCEPT !.pc = "clamp"])
       ELSE At(t, [inflight[t] EXCEPT !.pc = "chunk_end"])
    /\ Untouched /\ UNCHANGED <<current_file_content, read_position>>

\* get_next_chunk, `read_position = len(current_file_content)` and the
\* return of 'done'
Clamp(t) ==
    /\ inflight[t].op = "read_chunk" /\ inflight[t].pc = "clamp"
    /\ read_position' = Len(current_file_content)
    /\ At(t, [inflight[t] EXCEPT !.pc = "done",
                                 !.response = Done("End of file reached.")])
    /\ Untouched /\ UNCHANGED current_file_content

\* get_next_chunk, `chunk_end = min(read_position + chunk_size, len(...))`
ChunkEnd(t) ==
    /\ inflight[t].op = "read_chunk" /\ inflight[t].pc = "chunk_end"
    /\ At(t, [inflight[t] EXCEPT
                 !.pc = "slice",
                 !.chunk_end = Min(read_position + chunk_size,
                                   Len(current_file_content))])
    /\ Untouched /\ UNCHANGED <<current_file_content, read_position>>

\* get_next_chunk, `original_chunk = current_file_content[read_position:chunk_end]`
SliceChunk(t) ==
    /\ inflight[t].op = "read_chunk" /\ inflight[t].pc = "slice"
    /\ At(t, [inflight[t] EXCEPT
                 !.pc = "translate",
                 !.start = read_position,
                 !.chunk = Slice(current_file_content, read_position,
                                 inflight[t].chunk_end)])
    /\ Untouched /\ UNCHANGED <<current_file_content, read_position>>

\* get_next_chunk, the translation of the chunk
TranslateChunk(t) ==
    /\ inflight[t].op = "read_chunk" /\ inflight[t].pc = "translate"
    /\ \E e \in ChunkEnvs :
           At(t, [inflight[t] EXCEPT
                     !.pc = "store",
                     !.chunk = IF translation_language # "en" /\ e.translate = "ok"
                               THEN Translate(@) ELSE @])
    /\ Untouched /\ UNCHANGED <<current_file_content, read_position>>

\* get_next_chunk, `read_position = chunk_end`
StoreCursor(t) ==
    /\ inflight[t].op = "read_chunk" /\ inflight[t].pc = "store"
    /\ read_position' = inflight[t].chunk_end
    /\ At(t, [inflight[t] EXCEPT !.pc = "respond"])
    /\ Untouched /\ UNCHANGED current_file_content

\* get_next_chunk, the return of 'reading': the progress divides by the
\* length of the content as it is now, and read_chunk_handler catches nothing
RespondChunk(t) ==
    /\ inflight[t].op = "read_chunk" /\ inflight[t].pc = "respond"
    /\ At(t, [inflight[t] EXCEPT
                 !.pc = "done",
                 !.response =
                     IF Len(current_file_content) = 0 THEN Unhandled
                     ELSE Chunk("reading", inflight[t].chunk, "Reading chunk.",
                                Progress(read_position,
                                         Len(current_file_content)))])
    /\ Untouched /\ UNCHANGED <<current_file_content, read_position>>

\* handle_reset_command, `current_file_content = INITIAL_FILE_CONTENT`
ClearContent(t) ==
    /\ inflight[t].op = "reset" /\ inflight[t].pc = "clear_content"
    /\ current_file_content' = INITIAL_FILE_CONTENT
    /\ At(t, [inflight[t] EXCEPT !.pc = "clear_cursor"])
    /\ Untouched /\ UNCHANGED read_position

\* handle_reset_command, `read_position = INITIAL_READ_POSITION` and the
\* return
ClearCursor(t) ==
    /\ inflight[t].op = "reset" /\ inflight[t].pc = "clear_cursor"
    /\ read_position' = INITIAL_READ_POSITION
    /\ At(t, [inflight[t] EXCEPT
                 !.pc = "done",
                 !.response = Respond(Reply("success", "stop_read", None), FALSE)])
    /\ Untouched /\ UNCHANGED current_file_content

\* handle_open_file, `current_file_content = content`
SetContent(t) ==
    /\ inflight[t].op = "load" /\ inflight[t].pc = "set_content"
    /\ current_file_content' = inflight[t].loading
    /\ At(t, [inflight[t] EXCEPT !.pc = "set_cursor"])
    /\ Untouched /\ UNCHANGED read_position

\* handle_open_file, `read_position = 0` and the return
SetCursor(t) ==
    /\ inflight[t].op = "load" /\ inflight[t].pc = "set_cursor"
    /\ read_position' = 0
    /\ At(t, [inflight[t] EXCEPT
                 !.pc = "done",
                 !.response = Respond(Reply("success", "start_read", None), TRUE)])
    /\ Untouched /\ UNCHANGED current_file_content

\* the first statement of each handler
Entry(op) ==
    CASE op = "read_chunk" -> "check_content"
      [] op = "reset" -> "clear_content"
      [] op = "load" -> "set_content"

\* the cursors a document of n characters is left at by /read_chunk requests
\* served one at a time
Cursors(n, size) == {Min(k * size, n) : k \in 0..n}

\* a process that set its target language, answered "open notes.txt" with
\* success and then some /read_chunk requests, and now handles a
\* /read_chunk request and, at the same time, one more request: a
\* /read_chunk, a reset, or the load of a document
ConcurrentInit ==
    /\ chunk_size \in 1..MaxChunk
    /\ \E n \in 1..MaxLen :
           /\ current_file_content = Text(n)
           /\ read_position \in Cursors(n, chunk_size)
    /\ translation_language \in {"en", "fr"}
    /\ available = [moviepy |-> TRUE, pytube |-> TRUE, requests |-> TRUE]
    /\ request = [endpoint |-> "command", raw |-> "open notes.txt",
                  branch |-> "file", leaked |-> {}, failed |-> ""]
    /\ response = Respond(Reply("success", "start_read", None), TRUE)
    /\ prev = [InitialSession EXCEPT !.target = translation_language]
    /\ run = [start |-> 0, ranges |-> << >>, done |-> 0]
    /\ cleared = FALSE
    /\ client = NoPage
    /\ desktop = NoDesktop
    /\ \E op \in {"read_chunk", "reset", "load"} :
       \E k \in IF op = "load" THEN 1..MaxLen ELSE {0} :
           inflight =
               [t \in Threads |->
                   IF t = "first"
                   THEN [Idle EXCEPT !.op = "read_chunk",
                                     !.pc = Entry("read_chunk")]
                   ELSE [Idle EXCEPT !.op = op, !.pc = Entry(op),
                                     !.loading = Text(k)]]

ConcurrentNext ==
    \/ \E t \in Threads : CheckContent(t)
    \/ \E t \in Threads : CheckEnd(t)
    \/ \E t \in Threads : Clamp(t)
    \/ \E t \in Threads : ChunkEnd(t)
    \/ \E t \in Threads : SliceChunk(t)
    \/ \E t \in Threads : TranslateChunk(t)
    \/ \E t \in Threads : StoreCursor(t)
    \/ \E t \in Threads : RespondChunk(t)
    \/ \E t \in Threads : ClearContent(t)
    \/ \E t \in Threads : ClearCursor(t)
    \/ \E t \in Threads : SetContent(t)
    \/ \E t \in Threads : SetCursor(t)

ConcurrentSpec == ConcurrentInit /\ [][ConcurrentNext]_vars

(***************************************************************************)
(* The page of the web client: the script of smart.py, of app3.py and of   *)
(* voice_assistant_with_youtube_transcription.py                           *)
(***************************************************************************)
CLIENTS == {"smart", "app3", "voice"}

\* the commands a page sends in the model: the three servers answer them
\* alike
ClientCommands == {"open notes.txt", "restart", "resume", "hello"}

\* stopReading()
stopReading(c) == [c EXCEPT !.isReading = FALSE]

\* startReading(): nothing when reading already, a message and nothing else
\* without content
startReading(c) ==
    IF c.isReading THEN c
    ELSE IF ~c.hasContent THEN c
    ELSE [c EXCEPT !.isReading = TRUE]

\* submitCommand() of smart.py for a command other than 'stop' and 'pause',
\* data being the answer of /command: reading is started before has_content
\* is taken over
submitCommand_smart(c, data) ==
    LET stopped == stopReading(c) IN
    [(IF data.action = "start_read" THEN startReading(stopped) ELSE stopped)
     EXCEPT !.hasContent = data.has_content]

\* submitCommand() of app3.py: hasContent is set before reading is started,
\* and the YouTube actions return before has_content is taken over
submitCommand_app3(c, data) ==
    LET stopped == stopReading(c) IN
    IF data.action = "start_read"
    THEN [startReading([stopped EXCEPT !.hasContent = TRUE])
          EXCEPT !.hasContent = data.has_content]
    ELSE IF data.action = "stop_read"
    THEN [stopped EXCEPT !.hasContent = data.has_content]
    ELSE IF data.action \in {"play_youtube_embedded", "play_youtube"}
    THEN stopped
    ELSE [stopped EXCEPT !.hasContent = data.has_content]

\* submitCommand() of the voice assistant: has_content is taken over first
submitCommand_voice(c, data) ==
    LET known == [stopReading(c) EXCEPT !.hasContent = data.has_content]
    IN IF data.action = "start_read" THEN startReading(known) ELSE known

\* the script of the page that is open
submitCommand(c, data) ==
    CASE c.variant = "smart" -> submitCommand_smart(c, data)
      [] c.variant = "app3" -> submitCommand_app3(c, data)
      [] c.variant = "voice" -> submitCommand_voice(c, data)

\* fetchAndSpeakChunk(), data being the answer of /read_chunk
fetchAndSpeakChunk(c, data) ==
    IF data.status = "reading" THEN c
    ELSE IF data.status = "done"
    THEN [stopReading(c) EXCEPT !.hasContent = FALSE]
    ELSE stopReading(c)

\* the page is opened on a fresh server process
ClientInit ==
    /\ current_file_content = INITIAL_FILE_CONTENT
    /\ read_position = INITIAL_READ_POSITION
    /\ translation_language = INITIAL_TRANSLATION_LANGUAGE
    /\ available \in AvailableConfigs
    /\ chunk_size \in 1..MaxChunk
    /\ request = [endpoint |-> "none", raw |-> None, branch |-> "none",
                  leaked |-> {}, failed |-> ""]
    /\ response = [status |-> "none"]
    /\ prev = Session
    /\ run = [start |-> 0, ranges |-> << >>, done |-> 0]
    /\ cleared = FALSE
    /\ inflight = Serial
    /\ desktop = NoDesktop
    /\ \E v \in CLIENTS :
           client = [variant |-> v, isReading |-> FALSE, hasContent |-> FALSE,
                     last |-> "open"]

\* the user submits a command that the page sends to /command
ClientSubmit ==
    \E p \in Requests :
        \E e \in IF p.route = "file" THEN FileEnvs(p.file_kind) ELSE {NoEnv} :
            LET o == command_handler(p, Session, available, e) IN
            /\ p.raw \in ClientCommands
            /\ Answered(p.raw, p.route, o)
            /\ client' = [submitCommand(client, o.response)
                          EXCEPT !.last = "command"]

\* the user submits 'stop' or 'pause': nothing is sent
ClientPause ==
    /\ client' = [stopReading(client) EXCEPT !.last = "pause"]
    /\ UNCHANGED <<current_file_content, read_position, translation_language,
                   available, chunk_size, request, response, prev, run,
                   cleared, inflight, desktop>>

\* the reading loop asks for the next chunk
ClientFetchChunk ==
    /\ client.isReading
    /\ \E e \in ChunkEnvs :
           LET o == read_chunk_handler(chunk_size, Session, e) IN
           /\ ChunkAnswered(o)
           /\ client' = [fetchAndSpeakChunk(client, o.response)
                         EXCEPT !.last = "chunk"]

ClientNext ==
    \/ ClientSubmit
    \/ ClientPause
    \/ ClientFetchChunk

\* the loop re-arms itself with setTimeout(fetchAndSpeakChunk, 50) while
\* isReading is set
ClientSpec == ClientInit /\ [][ClientNext]_vars /\ WF_vars(ClientFetchChunk)

(***************************************************************************)
(* The page of app3.py with its awaits: a command and a chunk are asked    *)
(* for in one step and answered in a later one, and an utterance ends in a *)
(* step of its own                                                         *)
(***************************************************************************)
\* the calls of fetchAndSpeakChunk that can be pending at the same time
MaxLoops == 2

Loops == 1..MaxLoops

\* the calls of fetchAndSpeakChunk that are not pending
IdleLoops == {i \in Loops : client.loops[i] = "idle"}

LoopInit ==
    /\ current_file_content = INITIAL_FILE_CONTENT
    /\ read_position = INITIAL_READ_POSITION
    /\ translation_language = INITIAL_TRANSLATION_LANGUAGE
    /\ available \in AvailableConfigs
    /\ chunk_size \in 1..MaxChunk
    /\ request = [endpoint |-> "none", raw |-> None, branch |-> "none",
                  leaked |-> {}, failed |-> ""]
    /\ response = [status |-> "none"]
    /\ prev = Session
    /\ run = [start |-> 0, ranges |-> << >>, done |-> 0]
    /\ cleared = FALSE
    /\ inflight = Serial
    /\ desktop = NoDesktop
    /\ client = [variant |-> "app3", isReading |-> FALSE, hasContent |-> FALSE,
                 last |-> "open", pending |-> None,
                 loops |-> [i \in Loops |-> "idle"]]

\* the server is not asked
ServerIdle ==
    UNCHANGED <<current_file_content, read_position, translation_language,
                available, chunk_size, request, response, prev, run, cleared,
                inflight, desktop>>

\* submitCommand() up to `await fetch('/command')`: stopReading(), and the
\* command is sent
PageSubmit ==
    /\ client.pending = None
    /\ IdleLoops # {}
    /\ \E raw \in ClientCommands :
           client' = [stopReading(client) EXCEPT !.pending = raw,
                                                 !.last = "submit"]
    /\ ServerIdle

\* submitCommand() for 'stop' and 'pause'
PagePause ==
    /\ client' = [stopReading(client) EXCEPT !.last = "pause"]
    /\ ServerIdle

\* the rest of submitCommand(): the answer of /command is handled, and
\* startReading() calls fetchAndSpeakChunk(), which asks for a chunk
PageCommandAnswered ==
    /\ client.pending # None
    /\ \E p \in Requests :
       \E e \in IF p.route = "file" THEN FileEnvs(p.file_kind) ELSE {NoEnv} :
           LET o == command_handler(p, Session, available, e)
               handled == submitCommand_app3(client, o.response)
               called == handled.isReading /\ ~client.isReading
           IN /\ p.raw = client.pending
              /\ Answered(p.raw, p.route, o)
              /\ \E i \in IF called THEN IdleLoops ELSE {0} :
                     client' = [handled EXCEPT
                                   !.pending = None,
                                   !.last = "command",
                                   !.loops = IF called
                                             THEN [@ EXCEPT ![i] = "fetch"]
                                             ELSE @]

\* fetchAndSpeakChunk() from the answer of /read_chunk to `await speak(..)`,
\* or to its end when the answer is not 'reading'
LoopChunkAnswered ==
    \E i \in Loops : \E e \in ChunkEnvs :
        LET o == read_chunk_handler(chunk_size, Session, e) IN
        /\ client.loops[i] = "fetch"
        /\ ChunkAnswered(o)
        /\ client' = [fetchAndSpeakChunk(client, o.response) EXCEPT
                         !.last = "chunk",
                         !.loops[i] = IF o.response.status = "reading"
                                      THEN "speak" ELSE "idle"]

\* the utterance of the chunk ends or is cancelled: `if (isReading)
\* setTimeout(fetchAndSpeakChunk, 50)`
LoopSpeechEnds ==
    \E i \in Loops :
        /\ client.loops[i] = "speak"
        /\ client' = [client EXCEPT
                         !.loops[i] = IF client.isReading THEN "timer" ELSE "idle"]
        /\ ServerIdle

\* the timer fires: fetchAndSpeakChunk() returns when isReading is not set,
\* and asks for a chunk when it is
LoopTimerFires ==
    \E i \in Loops :
        /\ client.loops[i] = "timer"
        /\ client' = [client EXCEPT
                         !.loops[i] = IF client.isReading THEN "fetch" ELSE "idle"]
        /\ ServerIdle

LoopNext ==
    \/ PageSubmit
    \/ PagePause
    \/ PageCommandAnswered
    \/ LoopChunkAnswered
    \/ LoopSpeechEnds
    \/ LoopTimerFires

LoopSpec == LoopInit /\ [][LoopNext]_vars

(***************************************************************************)
(* The desktop program: the commands run one after another on the main     *)
(* thread, each read_file_content runs on a thread of its own, and all of  *)
(* them share tts_engine_running and read_position without a lock.  A      *)
(* command that starts a thread needs one of the Threads to be free.  The  *)
(* chunk of 500 characters is scaled to chunk_size.                        *)
(***************************************************************************)

\* the statements of the loop body after `if not tts_engine_running: break`
InChunk == {"chunk_end", "speak", "store"}

\* stop_speaking(); `stopped` records the threads that tts_engine.stop() was
\* to stop
stop_speaking(d) ==
    IF d.tts_engine_running
    THEN [d EXCEPT !.tts_engine_running = FALSE,
                   !.readers = [t \in Threads |->
                                   IF d.readers[t].pc \in InChunk
                                   THEN [d.readers[t] EXCEPT !.stopped = TRUE]
                                   ELSE d.readers[t]]]
    ELSE d

\* threading.Thread(target=read_file_content).start()
start_reader(d, t) ==
    [d EXCEPT !.readers[t] = [NoReader EXCEPT !.pc = "stop_speaking"]]

FreeThreads == {t \in Threads : desktop.readers[t].pc = "idle"}

\* the web server's state and history, which the desktop program has not
DesktopOnly ==
    UNCHANGED <<current_file_content, available, chunk_size, request,
                response, prev, run, cleared, inflight, client>>

\* open_file() has loaded a document and started the first thread
DesktopInit ==
    /\ \E n \in 1..MaxLen : current_file_content = Text(n)
    /\ read_position = INITIAL_READ_POSITION
    /\ translation_language = INITIAL_TRANSLATION_LANGUAGE
    /\ available = [moviepy |-> TRUE, pytube |-> TRUE, requests |-> TRUE]
    /\ chunk_size \in 1..MaxChunk
    /\ request = [endpoint |-> "none", raw |-> None, branch |-> "none",
                  leaked |-> {}, failed |-> ""]
    /\ response = [status |-> "none"]
    /\ prev = Session
    /\ run = [start |-> 0, ranges |-> << >>, done |-> 0]
    /\ cleared = FALSE
    /\ inflight = Serial
    /\ client = NoPage
    /\ desktop = start_reader(NoDesktop, "first")

\* respond('stop') and respond('pause')
DesktopPause ==
    /\ desktop' = stop_speaking(desktop)
    /\ UNCHANGED <<read_position, translation_language>>
    /\ DesktopOnly

\* resume_reading(), past its three early returns
DesktopResume ==
    /\ current_file_content # ""
    /\ read_position < Len(current_file_content)
    /\ ~desktop.tts_engine_running
    /\ \E t \in FreeThreads :
           desktop' = start_reader([stop_speaking(desktop) EXCEPT
                                       !.tts_engine_running = TRUE], t)
    /\ UNCHANGED <<read_position, translation_language>>
    /\ DesktopOnly

\* restart_reading()
DesktopRestart ==
    /\ current_file_content # ""
    /\ read_position' = 0
    /\ \E t \in FreeThreads :
           desktop' = start_reader([stop_speaking(desktop) EXCEPT
                                       !.tts_engine_running = TRUE], t)
    /\ UNCHANGED translation_language
    /\ DesktopOnly

\* handle_translation_command() of the desktop program, for a language that
\* get_language_code() knows
DesktopTranslate ==
    /\ \E code \in {"en", "fr"} : translation_language' = code
    /\ desktop.tts_engine_running \/ current_file_content # ""
    /\ \E t \in FreeThreads : desktop' = start_reader(stop_speaking(desktop), t)
    /\ UNCHANGED read_position
    /\ DesktopOnly

\* read_file_content, `stop_speaking()`
ReaderStopSpeaking(t) ==
    /\ desktop.readers[t].pc = "stop_speaking"
    /\ desktop' = [stop_speaking(desktop) EXCEPT !.readers[t].pc = "set_running"]
    /\ UNCHANGED <<read_position, translation_language>>
    /\ DesktopOnly

\* read_file_content, `tts_engine_running = True`
ReaderSetRunning(t) ==
    /\ desktop.readers[t].pc = "set_running"
    /\ desktop' = [desktop EXCEPT !.tts_engine_running = TRUE,
                                  !.readers[t].pc = "while"]
    /\ UNCHANGED <<read_position, translation_language>>
    /\ DesktopOnly

\* read_file_content, `while read_position < len(current_file_content)`
ReaderWhile(t) ==
    /\ desktop.readers[t].pc = "while"
    /\ desktop' = [desktop EXCEPT
                      !.readers[t].pc =
                          IF read_position < Len(current_file_content)
                          THEN "if_running" ELSE "end"]
    /\ UNCHANGED <<read_position, translation_language>>
    /\ DesktopOnly

\* read_file_content, `if not tts_engine_running: break`
ReaderIfRunning(t) ==
    /\ desktop.readers[t].pc = "if_running"
    /\ desktop' = [desktop EXCEPT
                      !.readers[t] =
                          IF desktop.tts_engine_running
                          THEN [@ EXCEPT !.pc = "chunk_end", !.stopped = FALSE]
                          ELSE [@ EXCEPT !.pc = "end"]]
    /\ UNCHANGED <<read_position, translation_language>>
    /\ DesktopOnly

\* read_file_content, `chunk_end = min(read_position + 500, len(..))` and
\* the slice, its translation and its display
ReaderChunkEnd(t) ==
    /\ desktop.readers[t].pc = "chunk_end"
    /\ desktop' = [desktop EXCEPT
                      !.readers[t].chunk_end =
                          Min(read_position + chunk_size,
                              Len(current_file_content)),
                      !.readers[t].pc = "speak"]
    /\ UNCHANGED <<read_position, translation_language>>
    /\ DesktopOnly

\* read_file_content, `speak(translated_chunk, block=True)` returns: the
\* chunk was spoken to its end, or tts_engine.stop() ended it
ReaderSpoken(t) ==
    /\ desktop.readers[t].pc = "speak"
    /\ desktop' = [desktop EXCEPT !.readers[t].pc = "store"]
    /\ UNCHANGED <<read_position, translation_language>>
    /\ DesktopOnly

\* read_file_content, `read_position = chunk_end`
ReaderStore(t) ==
    /\ desktop.readers[t].pc = "store"
    /\ read_position' = desktop.readers[t].chunk_end
    /\ desktop' = [desktop EXCEPT !.readers[t].pc = "while"]
    /\ UNCHANGED translation_language
    /\ DesktopOnly

\* read_file_content after the loop: `if tts_engine_running:
\* tts_engine_running = False`, and the thread ends
ReaderEnd(t) ==
    /\ desktop.readers[t].pc = "end"
    /\ desktop' = [desktop EXCEPT !.tts_engine_running = FALSE,
                                  !.readers[t] = NoReader]
    /\ UNCHANGED <<read_position, translation_language>>
    /\ DesktopOnly

DesktopNext ==
    \/ DesktopPause
    \/ DesktopResume
    \/ DesktopRestart
    \/ DesktopTranslate
    \/ \E t \in Threads : ReaderStopSpeaking(t)
    \/ \E t \in Threads : ReaderSetRunning(t)
    \/ \E t \in Threads : ReaderWhile(t)
    \/ \E t \in Threads : ReaderIfRunning(t)
    \/ \E t \in Threads : ReaderChunkEnd(t)
    \/ \E t \in Threads : ReaderSpoken(t)
    \/ \E t \in Threads : ReaderStore(t)
    \/ \E t \in Threads : ReaderEnd(t)

DesktopSpec == DesktopInit /\ [][DesktopNext]_vars

(***************************************************************************)
(* Properties                                                              *)
(***************************************************************************)
\* the last request was a /command request, and it was answered
Commanded == request.endpoint = "command"

\* the last request was a /read_chunk request
ChunkRead == request.endpoint = "read_chunk"

\* C1: after any sequence of /command and /read_chunk requests served one at
\* a time, 0 <= read_position <= len(current_file_content), and read_position
\* is 0 whenever current_file_content is empty.
C1_CursorWithinContent ==
    /\ 0 <= read_position
    /\ read_position <= Len(current_file_content)
    /\ current_file_content = "" => read_position = 0

\* C1 happens: a reset answered when the cursor stood at the end of a loaded
\* content
C1_ResetAfterReading ==
    /\ Commanded
    /\ request.branch = "reset"
    /\ prev.content # ""
    /\ prev.cursor = Len(prev.content)

\* C2: for every chunk size s > 0 and every loaded content of length L, the
\* successive get_next_chunk(s) calls from cursor 0 with nothing in between
\* return the ranges [0,s), [s,2s), ...: consecutive, disjoint, of size s but
\* for a last one of size <= s, covering exactly [0,L); every chunk is the
\* text of its range (or its translation); the call after the last range, and
\* no earlier call, answers 'done'.
C2_ChunksPartitionContent ==
    (ChunkRead /\ run.start = 0 /\ current_file_content # "") =>
        LET L == Len(current_file_content)
            s == chunk_size
            k == Len(run.ranges)
        IN /\ \A i \in 1..k :
                /\ (i - 1) * s < L
                /\ run.ranges[i] = <<(i - 1) * s, Min(i * s, L)>>
           /\ response.status = "reading" =>
                LET range == run.ranges[k]
                    text == SubSeq(current_file_content, range[1] + 1, range[2])
                IN response.chunk \in {text, Translate(text)}
           /\ response.status = "done" <=> /\ k > 0
                                          /\ run.ranges[k][2] = L
                                          /\ run.done > 0

\* C2 happens: a content longer than the chunk size, and not a multiple of
\* it, was read to its end: two or more ranges, the last one shorter, then 'done'
C2_ReadToTheEnd ==
    /\ ChunkRead
    /\ run.start = 0
    /\ response.status = "done"
    /\ Len(run.ranges) >= 2
    /\ LET last == run.ranges[Len(run.ranges)] IN
       /\ last[2] - last[1] < chunk_size
       /\ last[2] = Len(current_file_content)

\* C3: a reset command issued in any reachable state leaves the content empty
\* and the cursor 0, its response carries has_content = false, and every later
\* /command response carries has_content = false until a load (a file or a
\* transcription request) is answered with success.
C3_ResetClearsUntilLoad ==
    /\ (Commanded /\ request.branch = "reset") =>
            /\ current_file_content = ""
            /\ read_position = 0
            /\ response.has_content = FALSE
    /\ (Commanded /\ cleared) => response.has_content = FALSE

\* C4: every response of POST /command, on every branch and on the error
\* branches too, carries has_content equal to whether the content is not
\* empty when the response is produced.
C4_HasContentTellsContent ==
    Commanded => (response.has_content <=> current_file_content # "")

\* the intents of the dispatcher, in the order of their priority
INTENT_ORDER ==
    <<"reset", "youtube_play", "youtube_transcribe", "web", "file", "translate",
      "control", "conversation">>

\* whether a question matches an intent, as the dispatcher's contract words it
IntentMatches(intent, question) ==
    CASE intent = "reset" -> question \in RESET_PHRASES
      [] intent = "youtube_play" ->
            /\ In("play", question) \/ In("watch", question)
            /\ In("youtube", question)
            /\ ~In("transcribe", question)
            /\ ~In("translate", question)
      [] intent = "youtube_transcribe" ->
            /\ In("transcribe", question) \/ In("translate", question)
            /\ In("youtube", question)
      [] intent = "web" -> In("order", question) \/ In("search", question)
      [] intent = "file" ->
            /\ Truthy(extract_filename_from_command(question))
            /\ \E cmd \in {"open", "read", "transcribe", "play"} : In(cmd, question)
      [] intent = "translate" -> In("translate to", question)
      [] intent = "control" ->
            \/ question \in CONTROL_WORDS
            \/ StartsWith(question, "set reading speed to")
      [] OTHER -> TRUE

\* a playback command counts only when it names something to play
IntentMatchesWithQuery(intent, question) ==
    /\ IntentMatches(intent, question)
    /\ intent = "youtube_play" => Truthy(extract_youtube_query(question))

\* for every command, the first intent of INTENT_ORDER that matches it
FirstMatches ==
    {<<raw, INTENT_ORDER[CHOOSE i \in 1..Len(INTENT_ORDER) :
               /\ IntentMatches(INTENT_ORDER[i], Lower(Strip(raw)))
               /\ \A j \in 1..(i - 1) :
                      ~IntentMatches(INTENT_ORDER[j], Lower(Strip(raw)))]>> :
        raw \in Commands}

FirstMatchesWithQuery ==
    {<<raw, INTENT_ORDER[CHOOSE i \in 1..Len(INTENT_ORDER) :
               /\ IntentMatchesWithQuery(INTENT_ORDER[i], Lower(Strip(raw)))
               /\ \A j \in 1..(i - 1) :
                      ~IntentMatchesWithQuery(INTENT_ORDER[j], Lower(Strip(raw)))]>> :
        raw \in Commands}

\* the request carried a command string, and one response answered it
AnsweredOnce ==
    /\ response.status \in {"success", "error", "info", "action"}
    /\ response.http \in {200, 500}

\* C5 as stated: for every command string the dispatcher produces exactly one
\* response, that of the first intent that matches in the order reset,
\* YouTube playback, YouTube transcription, web action, file command,
\* 'translate to', reading control, conversation; never a later intent when an
\* earlier one matches.
C5_FirstMatchAnswers_AsStated ==
    (Commanded /\ request.raw # None) =>
        /\ AnsweredOnce
        /\ request.branch = Lookup(FirstMatches, request.raw)

\* C5 amended: the same, where a YouTube playback command matches only when a
\* query can be extracted from it; without one the later intents are tested.
C5_FirstMatchWithQueryAnswers ==
    (Commanded /\ request.raw # None) =>
        /\ AnsweredOnce
        /\ request.branch = Lookup(FirstMatchesWithQuery, request.raw)

\* C5 happens: a command that matches the playback, the web and the file
\* intents is answered by the playback branch
C5_PlaybackBeforeWebAndFile ==
    /\ Commanded
    /\ request.raw = "play order pizza on youtube"
    /\ IntentMatches("web", request.raw)
    /\ request.branch = "youtube_play"
    /\ response.action \in {"play_youtube_embedded", "play_youtube"}

\* C6: whenever a /command request ends with an error outcome (HTTP 500
\* included), content, cursor and target language are what they were before
\* the request.
C6_ErrorLeavesSessionUnchanged ==
    (Commanded /\ response.status = "error") => Session = prev

\* C7: on every exit path of a local or YouTube transcription request, no
\* temporary audio file the request created or downloaded is left when it
\* returns.
C7_NoTemporaryFileLeft ==
    (Commanded /\ request.branch \in {"file", "youtube_transcribe"}) =>
        request.leaked = {}

\* /read_chunk answered 'reading'
Reading == ChunkRead /\ response.status = "reading"

\* /read_chunk answered 'done' with the cursor at the end of the content
DoneAtEnd ==
    /\ ChunkRead
    /\ response.status = "done"
    /\ read_position = Len(current_file_content)

\* C8: with content loaded and no load, restart or reset in between, every
\* get_next_chunk call that answers 'reading' strictly increases the cursor
\* and leaves the content alone, a 'done' answer comes with the cursor at
\* len(content), and from any 'reading' answer a 'done' answer is reached
\* unless a /command request comes in between.
C8_ReadingReachesDone ==
    /\ [][(request'.endpoint = "read_chunk" /\ response'.status = "reading") =>
            /\ read_position' > read_position
            /\ current_file_content' = current_file_content]_vars
    /\ []((ChunkRead /\ response.status = "done") => DoneAtEnd)
    /\ Reading ~> (DoneAtEnd \/ Commanded)

\* C8 happens: a content was read to its end from a cursor in its middle,
\* where a /command request had interrupted the reading
C8_ResumedAndReadToTheEnd ==
    /\ DoneAtEnd
    /\ run.start > 0
    /\ Len(run.ranges) > 0
    /\ run.ranges[1][1] = run.start

\* C9: get_next_chunk on a session with empty content answers 'done' with
\* chunk "" and leaves content, cursor and target language unchanged.
C9_EmptySessionAnswersDone ==
    (ChunkRead /\ prev.content = "") =>
        /\ response.status = "done"
        /\ response.chunk = ""
        /\ Session = prev

\* C9 happens: /read_chunk on an empty session whose target language was
\* changed before
C9_EmptySessionWasRead ==
    /\ ChunkRead
    /\ prev.content = ""
    /\ prev.target # INITIAL_TRANSLATION_LANGUAGE
    /\ response.status = "done"

\* C10: once the cursor is at the end of the loaded content, every further
\* get_next_chunk call answers 'done' with an empty chunk and leaves the
\* session as the first such call left it.
C10_DoneIsIdempotent ==
    (ChunkRead /\ prev.content # "" /\ prev.cursor >= Len(prev.content)) =>
        /\ response.status = "done"
        /\ response.chunk = ""
        /\ Session = prev

\* C10 happens: a second 'done' answer in a row at the end of a content
C10_DoneTwiceInARow ==
    /\ ChunkRead
    /\ current_file_content # ""
    /\ response.status = "done"
    /\ run.done >= 2

\* C11: when the target language is not 'en' and the translation call fails,
\* get_next_chunk still answers 'reading' with the untranslated substring
\* [cursor, min(cursor + size, length)) and moves the cursor as in the
\* successful case; content and target language stay.
C11_TranslationFailureStillReads ==
    (ChunkRead /\ request.failed = "translate") =>
        LET chunk_end == Min(prev.cursor + chunk_size, Len(prev.content)) IN
        /\ prev.target # "en"
        /\ response.status = "reading"
        /\ response.chunk = SubSeq(prev.content, prev.cursor + 1, chunk_end)
        /\ Session = [prev EXCEPT !.cursor = chunk_end]
        /\ read_position > prev.cursor

\* C11 happens: a chunk of a content read in French whose translation failed,
\* in the middle of the content
C11_UntranslatedChunkRead ==
    /\ ChunkRead
    /\ request.failed = "translate"
    /\ translation_language = "fr"
    /\ prev.cursor > 0
    /\ response.status = "reading"
    /\ response.chunk # ""

\* C12: in the transcription pipeline, when speech recognition has produced a
\* non-empty transcript and the language detection or the translation then
\* fails, the request still succeeds: the original transcript is loaded and a
\* start_read action is returned, never a status 'error'.
C12_TranscriptSurvivesTranslationFailure ==
    (Commanded /\ request.failed \in {"detect", "translate"}) =>
        /\ response.status = "success"
        /\ response.action = "start_read"
        /\ current_file_content = Text(MaxLen)
        /\ read_position = 0

\* C13: "restart" with content loaded sets the cursor to 0, leaves the content
\* and the target language as they were and answers action start_read; with no
\* content loaded it answers status info without an action and changes nothing
C13_RestartRewinds ==
    (Commanded /\ request.raw = "restart") =>
        /\ request.branch = "control"
        /\ IF prev.content # ""
           THEN /\ Session = [prev EXCEPT !.cursor = 0]
                /\ response.status = "action"
                /\ response.action = "start_read"
           ELSE /\ Session = prev
                /\ response.status = "info"
                /\ response.action = None

\* a restart answered after part of a document was read in another language
C13_RestartedAfterReading ==
    /\ Commanded /\ request.raw = "restart"
    /\ prev.content # "" /\ prev.cursor > 0 /\ prev.target # "en"
    /\ read_position = 0 /\ response.action = "start_read"

C17_ResetRestoresInitialValues ==
    (Commanded /\ request.branch = "reset") =>
        /\ current_file_content = INITIAL_FILE_CONTENT
        /\ read_position = INITIAL_READ_POSITION
        /\ translation_language = INITIAL_TRANSLATION_LANGUAGE

\* C19: with no content loaded, "resume" and "continue" are answered with
\* status info, no action and has_content false, and the session is unchanged
C19_ResumeWithoutContent ==
    (Commanded /\ request.raw \in {"resume", "continue"} /\ prev.content = "") =>
        /\ request.branch = "control"
        /\ response.status = "info"
        /\ response.action = None
        /\ response.has_content = FALSE
        /\ Session = prev

\* "continue" answered after a reset, the target language being French
C19_ContinueAfterReset ==
    /\ Commanded /\ request.raw = "continue"
    /\ prev.content = "" /\ prev.target = "fr" /\ cleared
    /\ response.status = "info"

\* C20: "order pizza" is answered with status action, action open_url and the
\* pizza vendor's URL in every session state: the status, action and url are
\* those the same command gets in the initial session, whatever the content,
\* cursor and target language, and the session is left as it was
C20_OrderPizzaIgnoresSession ==
    (Commanded /\ request.raw = "order pizza") =>
        LET p == CHOOSE q \in Requests : q.raw = "order pizza"
            other == command_handler(p, InitialSession, available, NoEnv).response
        IN /\ request.branch = "web"
           /\ response.status = "action"
           /\ response.action = "open_url"
           /\ response.url = "https://www.dominos.com/"
           /\ <<response.status, response.action, response.url>>
                  = <<other.status, other.action, other.url>>
           /\ Session = prev

\* a pizza ordered in the middle of a document read in French
C20_PizzaOrderedWhileReading ==
    /\ Commanded /\ request.raw = "order pizza"
    /\ prev.content # "" /\ prev.cursor > 0 /\ prev.target = "fr"
    /\ response.action = "open_url" /\ response.has_content

\* C18: every 'reading' response of get_next_chunk reports the progress
\* floor(100 * newCursor / length) of exact integer arithmetic; hence the
\* progress lies in 0..100 and is 100 exactly when the new cursor is the
\* length of the content
C18_ProgressIsExactFloor ==
    (ChunkRead /\ response.status = "reading") =>
        /\ response.progress
              = (100 * read_position) \div Len(current_file_content)
        /\ response.progress \in 0..100
        /\ response.progress = 100 <=> read_position = Len(current_file_content)

\* the parse of the command served last
Parsed == CHOOSE p \in Requests : p.raw = request.raw

\* C21: for the command 'translate to spanish from french my_video.mp4' the
\* parser yields the target language 'es', the source language 'fr' and the
\* filename 'my_video.mp4'
C21_TargetSourceAndFilename ==
    (Commanded /\ request.raw = "translate to spanish from french my_video.mp4") =>
        /\ Lookup(Parsed.langs, prev.target) = <<"es", "fr">>
        /\ Parsed.file_name = "my_video.mp4"

\* a command "<keyword> <stem> dot <ext>" as the speech recogniser writes it
Spoken(keyword, stem, ext) == keyword \o " " \o stem \o " dot " \o ext

\* the spoken file commands among the request bodies
SpokenFiles ==
    {f \in {"transcribe"} \X {"city", "playlist"} \X {"mp4"} :
        Spoken(f[1], f[2], f[3]) \in Commands}

\* C22: spoken punctuation is normalised before the filename is extracted:
\* for 'transcribe city dot mp4', and for every '<keyword> <stem> dot <ext>'
\* with a stem of one word, the filename is '<stem>.<ext>'
C22_SpokenDotBecomesFilename ==
    \A f \in SpokenFiles :
        (Commanded /\ request.raw = Spoken(f[1], f[2], f[3])) =>
            Parsed.file_name = f[2] \o "." \o f[3]

\* the command served last names the language of code c as its target
TargetNamed(c) ==
    /\ Commanded /\ request.raw # None
    /\ In("translate to " \o LanguageName(c, None), Parsed.question)

\* C23 as stated: for every code c of the language registry, the code of the
\* name of c is c
C23_CodeOfNameIsCode_AsStated ==
    \A c \in LanguageCodes :
        TargetNamed(c) => get_language_code(LanguageName(c, None)) = c

\* C23: for every code c of the language registry, the code of the name of c
\* is the first code of the registry that has the name of c: it is c unless
\* an earlier code has the same name
C23_CodeOfNameIsFirstCodeOfName ==
    \A i \in 1..Len(LANGUAGES) :
        TargetNamed(LANGUAGES[i][1]) =>
            LET same == {j \in 1..Len(LANGUAGES) : LANGUAGES[j][2] = LANGUAGES[i][2]}
                first == CHOOSE j \in same : \A k \in same : j <= k
                back == get_language_code(LanguageName(LANGUAGES[i][1], None))
            IN /\ back = LANGUAGES[first][1]
               /\ (same = {i}) => back = LANGUAGES[i][1]
               /\ Lookup(Parsed.langs, prev.target)[1] \in {back, prev.target}

\* Hebrew named as the target: the registry has two codes for it, and the
\* parser finds the first
C23_HebrewFoundByItsFirstCode ==
    /\ TargetNamed("he") /\ TargetNamed("iw")
    /\ Lookup(Parsed.langs, prev.target)[1] = "iw"
    /\ prev.content # ""

\* C24: a command that contains 'search' and 'youtube' and not 'order' is
\* never answered by the web-action branch: its response is never an
\* open_url action with a generic web-search URL
C24_YoutubeSearchIsNoWebAction ==
    (/\ Commanded /\ request.raw # None
     /\ In("search", Parsed.question) /\ In("youtube", Parsed.question)
     /\ ~In("order", Parsed.question)) =>
        /\ request.branch # "web"
        /\ ~(/\ response.action = "open_url"
             /\ StartsWith(response.url, "https://www.google.com/search?q="))

\* C25: a command string from which no actionable intent is parsed (no reset
\* phrase, YouTube, web, file, 'translate to' or control match) falls through
\* to the conversational fallback and is answered with status info, never
\* with status error, and the session is unchanged
C25_NoIntentFallsBackToInfo ==
    (/\ Commanded /\ request.raw # None
     /\ Lookup(FirstMatchesWithQuery, request.raw) = "conversation") =>
        /\ request.branch = "conversation"
        /\ response.status = "info"
        /\ response.http = 200
        /\ response.action = None
        /\ Session = prev

\* small talk in the middle of a document
C25_SmallTalkWhileReading ==
    /\ Commanded /\ request.raw = "hello"
    /\ Lookup(FirstMatches, request.raw) = "conversation"
    /\ prev.content # "" /\ prev.cursor > 0
    /\ response.status = "info" /\ response.has_content

\* C26: a file command that names an existing media file without the word
\* 'transcribe' has the host open the file: it never answers action
\* start_read and leaves content, cursor and target language unchanged; an
\* existing file whose extension is neither a text nor a media extension is
\* answered with status error, the session unchanged
C26_MediaAndUnknownFilesLeaveSession ==
    (Commanded /\ request.branch = "file") =>
        /\ Parsed.file_kind = "media" =>
              /\ response.status \in {"info", "error"}
              /\ response.action = None
              /\ Session = prev
        /\ Parsed.file_kind = "unsupported" =>
              /\ response.status = "error"
              /\ response.action = None
              /\ Session = prev

\* a video opened by the host in the middle of a document
C26_VideoOpenedWhileReading ==
    /\ Commanded /\ request.raw = "play city.mp4"
    /\ Parsed.file_kind = "media"
    /\ prev.content # "" /\ prev.cursor > 0
    /\ response.status = "info"

\* the commands of C27: 'set reading speed to <number>' is the one of the
\* request bodies
PLAYBACK_CONTROLS ==
    {"stop", "pause", "resume", "continue", "set reading speed to 1.5"}

\* what the command `raw` is answered in the session before the last request
AnswerIn(raw, s) ==
    command_handler(CHOOSE p \in Requests : p.raw = raw, s, available, NoEnv)

\* C27: 'stop', 'pause', 'resume', 'continue' and 'set reading speed to
\* <number>' never change content, cursor or target language, whatever the
\* session; 'continue' has the response and the effect on the state that
\* 'resume' has
C27_PlaybackControlsKeepSession ==
    (Commanded /\ request.raw \in PLAYBACK_CONTROLS) =>
        /\ request.branch = "control"
        /\ Session = prev
        /\ request.raw \in {"resume", "continue"} =>
              /\ response = AnswerIn("resume", prev).response
              /\ response = AnswerIn("continue", prev).response
              /\ Session = AnswerIn("resume", prev).session
              /\ Session = AnswerIn("continue", prev).session

\* 'continue' answered with start_read in the middle of a document
C27_ContinuedWhileReading ==
    /\ Commanded /\ request.raw = "continue"
    /\ prev.content # "" /\ prev.cursor > 0 /\ prev.cursor < Len(prev.content)
    /\ response.action = "start_read"
    /\ read_position = prev.cursor


\* every thread has answered its request
Quiet == \A t \in Threads : inflight[t].pc = "done"

\* the range of the content a 'reading' answer of thread t carries
RangeOf(t) == <<inflight[t].start, Max(inflight[t].start, inflight[t].chunk_end)>>

\* C28: two /read_chunk requests handled at the same time on a loaded
\* session never return the same or overlapping ranges of the content, and
\* after both complete the cursor is the end of the later range.
C28_ConcurrentReadsAreExclusive ==
    (/\ Quiet
     /\ \A t \in Threads : /\ inflight[t].op = "read_chunk"
                           /\ inflight[t].response.status = "reading") =>
        LET a == RangeOf("first")
            b == RangeOf("second")
        IN /\ ~(Max(a[1], b[1]) < Min(a[2], b[2]))
           /\ read_position = Max(a[2], b[2])

\* C29: however a /read_chunk request interleaves with a reset or a load,
\* when no request is in progress 0 <= cursor <= len(content), the cursor
\* is 0 if the content is empty, and the /read_chunk request was answered
\* without an unhandled error.
C29_ReadAgainstResetOrLoadIsAtomic ==
    (Quiet /\ inflight["second"].op \in {"reset", "load"}) =>
        /\ 0 <= read_position
        /\ read_position <= Len(current_file_content)
        /\ current_file_content = "" => read_position = 0
        /\ inflight["first"].response.status # "unhandled"

\* C30: in each web client, whenever the answer of /command carries the
\* action 'start_read', the first load after the page opens included, the
\* client is in the reading state and asks for chunks; while it reads, it
\* leaves the reading state only at a 'done' answer or when the user pauses
\* or submits the next command.
C30_StartReadStartsPulling ==
    (client.last = "command" /\ response.action = "start_read") =>
        client.isReading

\* ... and a client that reads pulls the next chunk, and stops reading only
\* at 'done', at a pause or for the next command
C30_PullsUntilDoneOrPause ==
    /\ [][(client.isReading /\ ~client'.isReading) =>
             \/ client'.last \in {"pause", "command"}
             \/ client'.last = "chunk" /\ response'.status = "done"]_vars
    /\ (client.isReading /\ client.last = "command")
           ~> (client.last = "chunk" \/ ~client.isReading)


\* C31 as stated: only the first trigger keyword of the command is
\* considered; when its candidate is not accepted, no filename is extracted,
\* whatever follows later keywords.
C31_OnlyFirstKeyword_AsStated ==
    (Commanded /\ request.raw # None) =>
        Parsed.file_name = extract_filename_first_keyword_only(request.raw)

\* C31: the trigger keywords are tried in the order of the list, and the
\* filename is the candidate of the first keyword of the command whose
\* candidate is accepted; no filename is extracted only when the candidate
\* of no keyword of the command is accepted.
C31_FirstAcceptedKeyword ==
    (Commanded /\ request.raw # None) =>
        LET command == SpokenPunctuation(request.raw)
            accepted == {k \in KeywordsIn(command) :
                            LooksLikeFilename(FilenameCandidate(command, k))}
        IN IF accepted = {} THEN Parsed.file_name = None
           ELSE Parsed.file_name =
                    RStripDot(Strip(FilenameCandidate(command, Least(accepted))))

\* "open it and read notes.txt" loaded notes.txt: the candidate of "open" is
\* "it", that of "read" is the filename
C31_LaterKeywordNamesTheFile ==
    /\ Commanded
    /\ request.raw = "open it and read notes.txt"
    /\ ~LooksLikeFilename(FilenameCandidate(SpokenPunctuation(request.raw), 1))
    /\ Parsed.file_name = "notes.txt"
    /\ request.branch = "file"
    /\ response.action = "start_read"
    /\ current_file_content # ""

\* the last request was a command that asks for a transcription
Transcribing ==
    /\ Commanded /\ request.raw # None
    /\ \/ request.branch = "youtube_transcribe"
       \/ request.branch = "file" /\ Parsed.file_kind = "transcribe"

HINDI_RECOGNITION_CODE == "hi-IN"

\* C33: the target language of the session is always a translation code of
\* the language registry; it is never the regional code 'hi-IN', which only
\* the recognition source language takes.
C33_TargetIsRegistryCode ==
    /\ translation_language \in LanguageCodes
    /\ translation_language # HINDI_RECOGNITION_CODE
    /\ (Commanded /\ request.raw # None) =>
           Lookup(Parsed.langs, prev.target)[1] # HINDI_RECOGNITION_CODE

\* a YouTube video transcribed from Hindi speech: the source is 'hi-IN', the
\* target is the target of the session
C33_HindiTranscribedWithRegionalSource ==
    /\ Transcribing
    /\ request.raw = "transcribe hindi lofi on youtube"
    /\ Lookup(Parsed.langs, prev.target) = <<prev.target, HINDI_RECOGNITION_CODE>>
    /\ response.action = "start_read"
    /\ translation_language = prev.target
    /\ current_file_content # ""

\* the language names of the registry
LanguageNames == {LANGUAGES[i][2] : i \in 1..Len(LANGUAGES)}

\* C34: for every language name N of the registry, the command
\* 'translate to N' sets the target language of the session to the code of
\* N and is answered with status 'success'.
C34_TranslateToEveryLanguage ==
    \A N \in LanguageNames :
        (Commanded /\ request.raw = "translate to " \o N) =>
            /\ response.status = "success"
            /\ translation_language = get_language_code(N)

\* C35: whenever the answer of /command carries the action 'start_read',
\* the content of the session is not empty and the answer's has_content is
\* true.
C35_StartReadHasSomethingToRead ==
    (Commanded /\ response.action = "start_read") =>
        /\ current_file_content # ""
        /\ response.has_content

\* the session s has content and its cursor is at the end of it
ReadToTheEnd(s) == s.content # "" /\ s.cursor >= Len(s.content)

\* get_next_chunk would answer 'reading' in the session s
Readable(s) == s.content # "" /\ s.cursor < Len(s.content)

\* C36: with content loaded and the cursor at its end, 'resume' is answered
\* with status 'info' and no action and leaves the cursor at the end; from
\* such a session only 'restart' or a new load leads to a session in which
\* get_next_chunk answers 'reading' again.
C36_ResumeAtEndStaysAtEnd ==
    /\ []((/\ Commanded
           /\ request.raw \in {"resume", "continue"}
           /\ ReadToTheEnd(prev)) =>
              /\ response.status = "info"
              /\ response.action = None
              /\ Session = prev)
    /\ [][(ReadToTheEnd(Session) /\ Readable(Session')) =>
             /\ request'.endpoint = "command"
             /\ \/ request'.raw = "restart"
                \/ request'.branch \in {"file", "youtube_transcribe"}]_vars

\* 'resume' answered with 'info' after the document was read to its end
C36_ResumedAfterTheEnd ==
    /\ Commanded
    /\ request.raw = "resume"
    /\ ReadToTheEnd(prev)
    /\ prev.cursor > 0
    /\ response.status = "info"
    /\ read_position = Len(current_file_content)

\* the texts extract_file_content gives for the documents of the storage
ExtractedTexts == {Text(n) : n \in 1..MaxLen}

\* the target language resolved for the last request
ResolvedTarget ==
    LET target_lang == Lookup(Parsed.langs, prev.target)[1]
    IN IF Truthy(target_lang) THEN target_lang ELSE prev.target

Pulling == {i \in Loops : client.loops[i] = "fetch"}

\* C38: in the web client of app3.py at most one fetchAndSpeakChunk loop is
\* active at any time: a command submitted while a /read_chunk fetch or a
\* chunk utterance of the previous loop is pending never leaves two loops
\* pulling chunks from the server at the same time.
C38_AtMostOneLoopPulls == Cardinality(Pulling) <= 1

\* the read_file_content threads that are in a chunk and that no
\* stop_speaking() was to stop since they tested tts_engine_running
Advancing ==
    {t \in Threads : /\ desktop.readers[t].pc \in InChunk
                     /\ ~desktop.readers[t].stopped}

\* C39: in the desktop program at most one read_file_content thread
\* advances read_position at a time: after a pause and a resume, a restart or
\* a 'translate to' command given while a chunk is spoken, no two threads
\* that were not stopped are in a chunk of the shared cursor
C39_AtMostOneReaderAdvances == Cardinality(Advancing) <= 1

====
